---- MODULE Spec2Model ----
(***************************************************************************)
(* Scrybe ingestion gateway: HMAC request authentication (hmac_auth), the  *)
(* Redis-backed nonce store (NonceValidator) and the route the gateway     *)
(* binary actually serves (main / ingest_route / ingest_handler); the      *)
(* Redis-backed RateLimiter, the in-memory limiter of the rate_limit       *)
(* middleware, and FingerprintGenerator.                                   *)
(*                                                                         *)
(* Time is in milliseconds.  i64 arithmetic is modelled in two's           *)
(* complement at a reduced width (I64Bits) so that the wrap-around cases   *)
(* of validate_timestamp are inside the range TLC can compute with.        *)
(***************************************************************************)
EXTENDS Integers, Sequences, FiniteSets, TLC

\* ------------------------------------------------------------------ bounds

\* Width of the modelled i64 (scaled down from 64).
I64Bits == 22
\* Server clock at start.
T0 == 1000000
\* Number of requests that can be in flight at the same time.
MaxInFlight == 2
\* RateLimiter::new arguments: requests per window and window length.
MaxRequests == 2
WindowSeconds == 60
\* No counter is incremented beyond this value.
MaxCount == 4
\* No counter key is created more often than this.
MaxGen == 2

\* --------------------------------------------------------------- constants

\* auth.rs: const FIVE_MINUTES_MS: i64 = 5 * 60 * 1000
FIVE_MINUTES_MS == 5 * 60 * 1000
\* nonce.rs: ttl_seconds.unwrap_or(300)
DEFAULT_TTL_SECONDS == 300
\* rate_limit.rs: Quota::per_minute(NonZeroU32::new(100).unwrap())
GovernorQuota == 100

I64Min == -(2 ^ (I64Bits - 1))
I64Max == (2 ^ (I64Bits - 1)) - 1

\* Two's complement wrap of an integer into the i64 range.
Wrap(x) == ((x - I64Min) % (2 ^ I64Bits)) + I64Min

VARIABLES
    now,            \* server clock (chrono::Utc::now().timestamp_millis())
    build,          \* the redis crate the binary is built with
    hmacKeyEnv,     \* value of the SCRYBE_HMAC_KEY environment variable
    redis,          \* the shared Redis keyspace: key -> [val, exp, markedAt, passed]
    req,            \* the requests being handled by hmac_auth, one per slot
    routed,         \* the last request served by the router main() builds
    counters,       \* the "ratelimit:*" keys of the shared Redis keyspace
    call,           \* the RateLimiter calls in progress, one per slot
    gov,            \* the in-memory limiter of the rate_limit middleware
    fp,             \* sessions handed to FingerprintGenerator::generate
    fcall,          \* a call of calculate_confidence or of Fingerprint::new
    admitted,       \* history: the checks RateLimiter admitted, per identity
    lastStore       \* history: the last SETEX or DEL Redis ran, per session id

vars == <<now, build, hmacKeyEnv, redis, req, routed, counters, call, gov, fp, fcall, admitted, lastStore>>

Slots == 1 .. MaxInFlight

\* A key without a time to live.
NoExpiry == 0 - 1

\* ------------------------------------------------------------ request data

\* A header [st, text] is absent, present with bytes that are not visible
\* ASCII ("opaque": HeaderValue::to_str fails), or present with a text.

\* Text of X-Scrybe-Timestamp: the decimal rendering of an integer (dec) or
\* some non-numeric text.
TsText(v) == [dec |-> TRUE, val |-> v]
TsWord == [dec |-> FALSE, val |-> 0]

\* Request bodies are byte strings.  "xFF" is a byte that is not valid
\* UTF-8; "uFFFD" stands for the three bytes EF BF BD, the UTF-8 encoding
\* of U+FFFD REPLACEMENT CHARACTER; every other unit is an ASCII byte.

\* String::from_utf8_lossy followed by as_bytes: every invalid byte becomes
\* the encoding of U+FFFD, valid input is unchanged.
from_utf8_lossy(bytes) ==
    [i \in 1 .. Len(bytes) |-> IF bytes[i] = "xFF" THEN "uFFFD" ELSE bytes[i]]

\* format!("{}:{}:{}", timestamp, nonce, body) as bytes.  The timestamp text
\* has passed parse::<i64> and so holds no ':'; it is kept as one unit.
Message(timestamp, nonce, bodyText) ==
    [ts |-> timestamp, rest |-> nonce \o <<":">> \o bodyText]

\* HMAC-SHA256 is taken as collision-free: the tag is the pair it was
\* computed from.  hex::encode writes lowercase digits.
compute_signature(message, key) ==
    [mac |-> <<key, message>>, hexcase |-> "lower"]

\* The built-in fallback key of get_hmac_key.
DevKey == "development-key-do-not-use-in-production"

\* hex::decode on the values the environment variable takes in the model.
HexDecode(text) ==
    IF text = "6b31" THEN [ok |-> TRUE, bytes |-> "k1"]
    ELSE [ok |-> FALSE, bytes |-> ""]

EnvUnset == [set |-> FALSE, text |-> ""]
EnvValues == {EnvUnset, [set |-> TRUE, text |-> "6b31"], [set |-> TRUE, text |-> "zz"]}

get_hmac_key ==
    IF hmacKeyEnv.set /\ HexDecode(hmacKeyEnv.text).ok
    THEN HexDecode(hmacKeyEnv.text).bytes
    ELSE DevKey

\* extract_header: Ok(text), MissingHeader or InvalidHeader.
extract_header(h) ==
    IF h.st = "absent" THEN [ok |-> FALSE, err |-> "MissingHeader"]
    ELSE IF h.st = "opaque" THEN [ok |-> FALSE, err |-> "InvalidHeader"]
    ELSE [ok |-> TRUE, err |-> "none"]

\* str::parse::<i64>.
ParseI64(text) ==
    IF text.dec /\ text.val >= I64Min /\ text.val <= I64Max
    THEN [ok |-> TRUE, val |-> text.val]
    ELSE [ok |-> FALSE, val |-> 0]

\* i64 subtraction and abs: a panic when the build checks overflow,
\* two's complement wrap-around when it does not.
SubI64(a, b, checks) ==
    IF a - b >= I64Min /\ a - b <= I64Max THEN [panic |-> FALSE, val |-> a - b]
    ELSE [panic |-> checks, val |-> Wrap(a - b)]

AbsI64(a, checks) ==
    IF a = I64Min THEN [panic |-> checks, val |-> I64Min]
    ELSE [panic |-> FALSE, val |-> IF a < 0 THEN 0 - a ELSE a]

validate_timestamp(text, clock, checks) ==
    LET p == ParseI64(text)
        d == SubI64(clock, p.val, checks)
        m == AbsI64(d.val, checks)
    IN  IF ~p.ok THEN "InvalidTimestamp"
        ELSE IF d.panic \/ m.panic THEN "Panic"
        ELSE IF m.val > FIVE_MINUTES_MS THEN "TimestampExpired"
        ELSE "Ok"

\* ------------------------------------------------------------------- Redis

\* format!("nonce:{}", nonce)
NonceKey(nonce) == <<"nonce:">> \o nonce

IntReply(v) == [type |-> "int", v |-> v]
NilReply == [type |-> "nil", v |-> 0]

\* SETNX key "1": Redis sets the key only when it is absent and replies with
\* the integer 1 (set) or 0 (not set).  The new key has no time to live.
\* (markedAt and passed are history: when the key was created, and whether
\* a validate_nonce call has returned Ok(true) for it since.)
SetNxStore(store, key, clock) ==
    IF key \in DOMAIN store THEN store
    ELSE store @@ (key :> [val |-> "1", exp |-> NoExpiry, markedAt |-> clock,
                           passed |-> FALSE])

SetNxReply(store, key) ==
    IF key \in DOMAIN store THEN IntReply(0) ELSE IntReply(1)

\* EXPIRE key seconds: gives an existing key a time to live from now on.
ExpireStore(store, key, seconds, clock) ==
    IF key \in DOMAIN store
    THEN [store EXCEPT ![key].exp = clock + seconds * 1000]
    ELSE store

\* The keys Redis still holds at time clock.
Unexpired(store, clock) ==
    [k \in {x \in DOMAIN store : store[x].exp = NoExpiry \/ clock <= store[x].exp}
        |-> store[k]]

\* The identities whose requests are counted.
Identities == {"ip1", "ip2"}

\* format!("ratelimit:{}", identifier)
RateKey(identifier) == <<"ratelimit:", identifier>>
RateKeys == {RateKey(i) : i \in Identities}

\* A counter key that is not in the keyspace.  (gen is history: how many
\* times the key has been created so far.)
AbsentCounter(gen) ==
    [present |-> FALSE, val |-> 0, exp |-> NoExpiry, start |-> 0, gen |-> gen,
     hits |-> 0]

\* A counter that stops at 2, so that calls beyond it leave it as it is.
IncrStoreSaturating(store, key, clock) ==
    IF store[key].present
    THEN [store EXCEPT ![key].val = IF @ < 2 THEN @ + 1 ELSE @, ![key].hits = @ + 1]
    ELSE [store EXCEPT ![key] =
             [present |-> TRUE, val |-> 1, exp |-> NoExpiry, start |-> clock,
              gen |-> store[key].gen + 1, hits |-> 1]]

\* INCR key: Redis adds one to the integer at the key, creating the key at 0
\* without a time to live when it is absent, and replies with the new value.
\* (start and hits are history: when the key was created, and how many
\* check calls have been counted on it since.)
IncrStore(store, key, clock) ==
    IF store[key].present
    THEN [store EXCEPT ![key].val = @ + 1, ![key].hits = @ + 1]
    ELSE [store EXCEPT ![key] =
             [present |-> TRUE, val |-> 1, exp |-> NoExpiry, start |-> clock,
              gen |-> store[key].gen + 1, hits |-> 1]]

\* A counter read without the increment: every first request would be told 1.
StaleIncrReply(store, key) == IntReply(1)

IncrReply(store, key) ==
    IntReply(IF store[key].present THEN store[key].val + 1 ELSE 1)

\* EXPIRE on a counter key.
ExpireCounter(store, key, seconds, clock) ==
    IF store[key].present
    THEN [store EXCEPT ![key].exp = clock + seconds * 1000]
    ELSE store

\* GET key: the value as a bulk string, or Nil when the key is absent.
GetReply(store, key) ==
    IF store[key].present THEN [type |-> "bulk", v |-> store[key].val] ELSE NilReply

\* A reset that clears the counters of every identity.
DelEveryCounter(store, key) == [k \in DOMAIN store |-> AbsentCounter(store[k].gen)]

\* DEL key
DelStore(store, key) ==
    [store EXCEPT ![key] = AbsentCounter(store[key].gen)]

\* The counter keys Redis still holds at time clock.
UnexpiredCounters(store, clock) ==
    [k \in DOMAIN store |->
        IF store[k].present /\ store[k].exp # NoExpiry /\ clock > store[k].exp
        THEN AbsentCounter(store[k].gen) ELSE store[k]]

\* redis::FromRedisValue for Option<String>: Nil is None, every other reply
\* is decoded as a String.  An integer reply is a type error in the crate
\* versions that accept only bulk and status replies as strings, and is
\* rendered in decimal by the versions that convert integers.
DecodeOptionString(reply, intAsString) ==
    IF reply.type = "nil" THEN [ok |-> TRUE, some |-> FALSE]
    ELSE IF reply.type = "int" THEN [ok |-> intAsString, some |-> intAsString]
    ELSE [ok |-> TRUE, some |-> TRUE]

\* NonceValidator::new
NonceValidatorNew(ttlOption) ==
    [ttl_seconds |-> IF ttlOption.some THEN ttlOption.v ELSE DEFAULT_TTL_SECONDS]

\* AppState::new builds the validator; the gateway passes no explicit TTL.
nonce_validator == NonceValidatorNew([some |-> FALSE, v |-> 0])

TtlMs == nonce_validator.ttl_seconds * 1000

\* ---------------------------------------------------------------- requests

NoHdr == [st |-> "absent", text |-> TsWord]
NoNonceHdr == [st |-> "absent", text |-> <<>>]
NoSig == [mac |-> <<"", [ts |-> TsWord, rest |-> <<>>]>>, hexcase |-> "lower"]
NoSigHdr == [st |-> "absent", text |-> NoSig]

IdleReq ==
    [pc |-> "idle", ts |-> NoHdr, nonce |-> NoNonceHdr, sig |-> NoSigHdr,
     body |-> <<>>, reply |-> NilReply, vn |-> "none", outcome |-> "none",
     fwdBody |-> <<>>, fresh |-> FALSE, replay |-> FALSE, fault |-> FALSE]

Finish(r, outcome) == [r EXCEPT !.pc = "done", !.outcome = outcome]

\* hmac_auth up to its first await: the three extract_header calls and
\* validate_timestamp, in this order, each returning early on failure.
HmacAuthHeaders(ts, nonce, sig, clock, checks) ==
    IF ~extract_header(ts).ok THEN extract_header(ts).err
    ELSE IF ~extract_header(nonce).ok THEN extract_header(nonce).err
    ELSE IF ~extract_header(sig).ok THEN extract_header(sig).err
    ELSE validate_timestamp(ts.text, clock, checks)

\* Whether the text is an i64 at most five minutes away from the clock, in
\* unbounded arithmetic.
WithinWindow(text, clock) ==
    /\ ParseI64(text).ok
    /\ clock - text.val <= FIVE_MINUTES_MS
    /\ text.val - clock <= FIVE_MINUTES_MS

\* An hmac_auth that marks the nonce before it looks at the timestamp.
HmacAuthEnterMarkFirst(r, ts, nonce, sig, body, checks) ==
    /\ req[r].pc = "idle"
    /\ LET h == HmacAuthHeaders(ts, nonce, sig, now, checks)
           rec == [IdleReq EXCEPT !.ts = ts, !.nonce = nonce, !.sig = sig,
                                  !.body = body,
                                  !.fresh = WithinWindow(ts.text, now)]
       IN  req' = [req EXCEPT ![r] =
                      IF h = "Ok" THEN [rec EXCEPT !.pc = "conn"]
                      ELSE Finish(rec, h)]
    /\ redis' = IF extract_header(nonce).ok
                THEN SetNxStore(redis, NonceKey(nonce.text), now)
                ELSE redis
    /\ UNCHANGED <<now, build, hmacKeyEnv, routed, counters, call, gov, fp, fcall, admitted, lastStore>>

\* A request enters hmac_auth.  checks tells whether the binary was compiled
\* with overflow checks (a debug build) or without (a release build).
\* (fresh is history: the timestamp header was within the window then.)
HmacAuthEnter(r, ts, nonce, sig, body, checks) ==
    /\ req[r].pc = "idle"
    /\ LET h == HmacAuthHeaders(ts, nonce, sig, now, checks)
           rec == [IdleReq EXCEPT !.ts = ts, !.nonce = nonce, !.sig = sig,
                                  !.body = body,
                                  !.fresh = WithinWindow(ts.text, now)]
       IN  req' = [req EXCEPT ![r] =
                      IF h = "Ok" THEN [rec EXCEPT !.pc = "conn"]
                      ELSE Finish(rec, h)]
    /\ UNCHANGED <<now, build, hmacKeyEnv, redis, routed, counters, call, gov, fp, fcall, admitted, lastStore>>

\* validate_nonce: get_connection().await finds no connection, or the
\* SETNX command fails before Redis has run it.  validate_nonce returns Err
\* and hmac_auth maps it to InvalidNonce.
GetConnectionFail(r) ==
    /\ req[r].pc = "conn"
    /\ req' = [req EXCEPT ![r] =
                  Finish([@ EXCEPT !.vn = "err", !.fault = TRUE], "InvalidNonce")]
    /\ UNCHANGED <<now, build, hmacKeyEnv, redis, routed, counters, call, gov, fp, fcall, admitted, lastStore>>

\* validate_nonce has its connection and Redis executes the SETNX; the reply
\* travels back.  (replay is history: the key was there, left by a call
\* that returned Ok(true), so its time to live had not run out.)
SetNxExec(r) ==
    /\ req[r].pc = "conn"
    /\ LET key == NonceKey(req[r].nonce.text)
       IN  /\ redis' = SetNxStore(redis, key, now)
           /\ req' = [req EXCEPT ![r].pc = "reply",
                                 ![r].reply = SetNxReply(redis, key),
                                 ![r].replay = key \in DOMAIN redis /\ redis[key].passed]
    /\ UNCHANGED <<now, build, hmacKeyEnv, routed, counters, call, gov, fp, fcall, admitted, lastStore>>

\* The SETNX command fails with its reply lost.
SetNxFail(r) ==
    /\ req[r].pc = "reply"
    /\ req' = [req EXCEPT ![r] =
                  Finish([@ EXCEPT !.vn = "err", !.fault = TRUE], "InvalidNonce")]
    /\ UNCHANGED <<now, build, hmacKeyEnv, redis, routed, counters, call, gov, fp, fcall, admitted, lastStore>>

\* validate_nonce decodes the reply as Option<String> and branches on
\* is_some(): EXPIRE next, Ok(false), or the decoding error.
SetNxDecode(r) ==
    /\ req[r].pc = "reply"
    /\ LET d == DecodeOptionString(req[r].reply, build.intAsString)
       IN  req' = [req EXCEPT ![r] =
                      IF ~d.ok THEN Finish([@ EXCEPT !.vn = "err"], "InvalidNonce")
                      ELSE IF d.some THEN [@ EXCEPT !.pc = "expire"]
                      ELSE Finish([@ EXCEPT !.vn = "false"], "ReplayAttack")]
    /\ UNCHANGED <<now, build, hmacKeyEnv, redis, routed, counters, call, gov, fp, fcall, admitted, lastStore>>

MarkPassed(store, key) ==
    IF key \in DOMAIN store THEN [store EXCEPT ![key].passed = TRUE] ELSE store

\* Redis executes the EXPIRE; validate_nonce returns Ok(true) and hmac_auth
\* goes on to read the body.
Expire(r) ==
    /\ req[r].pc = "expire"
    /\ redis' = MarkPassed(ExpireStore(redis, NonceKey(req[r].nonce.text),
                                       nonce_validator.ttl_seconds, now),
                           NonceKey(req[r].nonce.text))
    /\ req' = [req EXCEPT ![r].pc = "body", ![r].vn = "true"]
    /\ UNCHANGED <<now, build, hmacKeyEnv, routed, counters, call, gov, fp, fcall, admitted, lastStore>>

\* The EXPIRE command fails, before Redis ran it or with its reply lost.
ExpireFail(r, applied) ==
    /\ req[r].pc = "expire"
    /\ redis' = IF applied
                THEN ExpireStore(redis, NonceKey(req[r].nonce.text),
                                 nonce_validator.ttl_seconds, now)
                ELSE redis
    /\ req' = [req EXCEPT ![r] =
                  Finish([@ EXCEPT !.vn = "err", !.fault = TRUE], "InvalidNonce")]
    /\ UNCHANGED <<now, build, hmacKeyEnv, routed, counters, call, gov, fp, fcall, admitted, lastStore>>

\* axum::body::to_bytes fails.
ReadBodyFail(r) ==
    /\ req[r].pc = "body"
    /\ req' = [req EXCEPT ![r] = Finish([@ EXCEPT !.fault = TRUE], "InvalidSignature")]
    /\ UNCHANGED <<now, build, hmacKeyEnv, redis, routed, counters, call, gov, fp, fcall, admitted, lastStore>>

\* The expected signature of a request as hmac_auth computes it.
ExpectedSignature(r) ==
    compute_signature(
        Message(r.ts.text, r.nonce.text, from_utf8_lossy(r.body)), get_hmac_key)

\* A comparison that returns at the first pair of bytes that differ.
RECURSIVE ShortCircuit(_, _, _)
ShortCircuit(a, b, i) ==
    IF i > Len(a) THEN [choice |-> TRUE, steps |-> Len(a)]
    ELSE IF a[i] # b[i] THEN [choice |-> FALSE, steps |-> i]
    ELSE ShortCircuit(a, b, i + 1)

short_circuit_eq(a, b) ==
    IF Len(a) # Len(b) THEN [choice |-> FALSE, steps |-> 0]
    ELSE ShortCircuit(a, b, 1)

\* The loop of subtle's ConstantTimeEq for slices: x &= ai.ct_eq(bi) for
\* every pair of bytes; steps counts the pairs that were compared.
RECURSIVE CtEqLoop(_, _, _, _)
CtEqLoop(a, b, i, x) ==
    IF i > Len(a) THEN [choice |-> x, steps |-> i - 1]
    ELSE CtEqLoop(a, b, i + 1, x /\ a[i] = b[i])

\* subtle::ConstantTimeEq on the two byte strings: slices of different
\* lengths are unequal at once, slices of one length are compared in full.
ct_eq(a, b) ==
    IF Len(a) # Len(b) THEN [choice |-> FALSE, steps |-> 0]
    ELSE CtEqLoop(a, b, 1, TRUE)

\* The body is read, the signatures are compared and the request is either
\* handed to next.run with the body bytes put back, or rejected.  (The hex
\* text of an HMAC tag is compared as one unit here.)
VerifySignature(r) ==
    /\ req[r].pc = "body"
    /\ req' = [req EXCEPT ![r] =
                  IF ct_eq(<<ExpectedSignature(req[r])>>, <<req[r].sig.text>>).choice
                  THEN Finish([@ EXCEPT !.fwdBody = req[r].body], "Forwarded")
                  ELSE Finish(@, "InvalidSignature")]
    /\ UNCHANGED <<now, build, hmacKeyEnv, redis, routed, counters, call, gov, fp, fcall, admitted, lastStore>>

\* The values of AuthError; MissingHeader and InvalidHeader carry the name
\* of the header.
HeaderNames == {"x-scrybe-timestamp", "x-scrybe-nonce", "x-scrybe-signature"}

AuthError ==
    [kind : {"MissingHeader", "InvalidHeader"}, header : HeaderNames] \cup
    [kind : {"InvalidTimestamp", "InvalidSignature", "InvalidNonce", "ReplayAttack",
             "TimestampExpired", "InvalidKey"},
     header : {""}]

\* A response that answers an expired timestamp and a wrong signature with
\* one and the same text.
into_response_unauthorized(self) ==
    IF self.kind = "MissingHeader"
    THEN [status |-> 400, body |-> <<"Missing header: ", self.header>>]
    ELSE IF self.kind = "InvalidTimestamp"
    THEN [status |-> 401, body |-> <<"Invalid timestamp">>]
    ELSE IF self.kind \in {"InvalidSignature", "TimestampExpired"}
    THEN [status |-> 401, body |-> <<"Unauthorized">>]
    ELSE IF self.kind = "InvalidNonce"
    THEN [status |-> 500, body |-> <<"Nonce validation failed">>]
    ELSE IF self.kind = "ReplayAttack"
    THEN [status |-> 409, body |-> <<"Replay attack detected">>]
    ELSE IF self.kind = "InvalidKey"
    THEN [status |-> 500, body |-> <<"Configuration error">>]
    ELSE [status |-> 400, body |-> <<"Invalid header: ", self.header>>]

\* AuthError::into_response: the status and the text of the response.
into_response(self) ==
    IF self.kind = "MissingHeader"
    THEN [status |-> 400, body |-> <<"Missing header: ", self.header>>]
    ELSE IF self.kind = "InvalidTimestamp"
    THEN [status |-> 401, body |-> <<"Invalid timestamp">>]
    ELSE IF self.kind = "InvalidSignature"
    THEN [status |-> 401, body |-> <<"Invalid signature">>]
    ELSE IF self.kind = "InvalidNonce"
    THEN [status |-> 500, body |-> <<"Nonce validation failed">>]
    ELSE IF self.kind = "ReplayAttack"
    THEN [status |-> 409, body |-> <<"Replay attack detected">>]
    ELSE IF self.kind = "TimestampExpired"
    THEN [status |-> 401, body |-> <<"Timestamp expired">>]
    ELSE IF self.kind = "InvalidKey"
    THEN [status |-> 500, body |-> <<"Configuration error">>]
    ELSE [status |-> 400, body |-> <<"Invalid header: ", self.header>>]

NoResponse == [status |-> 0, body |-> << >>]

NotCompared == [choice |-> FALSE, steps |-> 0 - 1]

\* The expected signature is compared with the i-th of the two supplied
\* signatures at hand.
CtEq(i) ==
    /\ fcall.fn = "ct_eq" /\ fcall.results[i] = NotCompared
    /\ fcall' = [fcall EXCEPT !.results[i] =
                    ct_eq(fcall.expected, fcall.provided[i])]
    /\ UNCHANGED <<now, build, hmacKeyEnv, redis, req, routed, counters, call, gov, fp, admitted, lastStore>>

\* The i-th of the two rejections at hand is turned into its response; the
\* text is also what warn! logs.
IntoResponse(i) ==
    /\ fcall.fn = "into_response" /\ fcall.responses[i] = NoResponse
    /\ fcall' = [fcall EXCEPT !.responses[i] = into_response(fcall.errors[i])]
    /\ UNCHANGED <<now, build, hmacKeyEnv, redis, req, routed, counters, call, gov, fp, admitted, lastStore>>

\* The request future is dropped at one of its await points: nothing more
\* of it runs and no response is produced.
Cancel(r) ==
    /\ req[r].pc \in {"conn", "reply", "expire", "body"}
    /\ req' = [req EXCEPT ![r] = IdleReq]
    /\ UNCHANGED <<now, build, hmacKeyEnv, redis, routed, counters, call, gov, fp, fcall, admitted, lastStore>>

\* The response has been sent; the slot takes the next request.
Recycle(r) ==
    /\ req[r].pc = "done"
    /\ req' = [req EXCEPT ![r] = IdleReq]
    /\ UNCHANGED <<now, build, hmacKeyEnv, redis, routed, counters, call, gov, fp, fcall, admitted, lastStore>>

\* The moments the clock is observed at: the start, and the end of and the
\* first millisecond after the five minutes that follow it.
Moments == {T0 + o : o \in {0, FIVE_MINUTES_MS, FIVE_MINUTES_MS + 1}}

\* Time passes; Redis drops the keys whose time to live has run out.
Tick(t) ==
    /\ t > now
    /\ now' = t
    /\ redis' = Unexpired(redis, t)
    /\ counters' = UnexpiredCounters(counters, t)
    /\ UNCHANGED <<build, hmacKeyEnv, req, routed, call, gov, fp, fcall, admitted, lastStore>>

\* ------------------------------------------------------------ the router

\* ingest_route(): Router::new().route("/api/v1/ingest", post(ingest_handler))
\* with no .layer(...) call; the hmac_auth layer is commented out.
ingest_route ==
    [path |-> "/api/v1/ingest", method |-> "POST", handler |-> "ingest_handler",
     layers |-> << >>]

\* main(): the routes of the application ...
AppRoutes ==
    {[path |-> "/health", method |-> "GET", handler |-> "health_check",
      layers |-> << >>],
     [path |-> "/health/ready", method |-> "GET", handler |-> "readiness_check",
      layers |-> << >>],
     ingest_route}

\* ... and the .layer(...) calls on the merged router, in source order.
AppLayers == <<"security_headers", "TraceLayer">>

Reverse(s) == [i \in 1 .. Len(s) |-> s[Len(s) + 1 - i]]

\* A layer added later wraps the ones added before it, and the layers of
\* the whole router wrap those of a route: the order in which the
\* middleware of a route see a request.
MiddlewareOrder(route) == Reverse(AppLayers) \o Reverse(route.layers)

\* The numbers of events in the collections of BehavioralSignals.
NoBehavior == [mouse_events |-> 0, scroll_events |-> 0, click_events |-> 0]

\* The limits behavioral.rs declares for the collections of BehavioralSignals.
MAX_MOUSE_EVENTS == 1000
MAX_SCROLL_EVENTS == 100
MAX_CLICK_EVENTS == 100

NoRequest ==
    [method |-> "", path |-> "", hasTimestamp |-> FALSE, hasNonce |-> FALSE,
     hasSignature |-> FALSE, jsonOk |-> FALSE]

NotRouted ==
    [served |-> FALSE, request |-> NoRequest, trail |-> << >>,
     handler |-> "none", status |-> 0, sessionId |-> FALSE]

\* HttpVersion::from_hyper
from_hyper(version) ==
    IF version = "HTTP_10" THEN "Http10"
    ELSE IF version = "HTTP_11" THEN "Http11"
    ELSE IF version = "HTTP_2" THEN "Http2"
    ELSE IF version = "HTTP_3" THEN "Http3"
    ELSE "Http11"

extract_http_version(version) == from_hyper(version)

\* extract_ip_info: the address of the connection.
extract_ip_info(connect_info) == connect_info.ip

\* The names extract_headers captures, in its order.
capture_headers ==
    <<"user-agent", "accept", "accept-language", "accept-encoding", "referer",
      "sec-fetch-dest", "sec-fetch-mode", "sec-fetch-site", "sec-ch-ua",
      "sec-ch-ua-mobile", "sec-ch-ua-platform">>

\* extract_headers: a Header for every captured name the header map holds
\* with a value that is visible ASCII.  (A header map is a function from the
\* names it holds to [st, value].)
RECURSIVE ExtractFrom(_, _)
ExtractFrom(headers, i) ==
    IF i > Len(capture_headers) THEN << >>
    ELSE (IF capture_headers[i] \in DOMAIN headers /\ headers[capture_headers[i]].st = "text"
          THEN <<[name |-> capture_headers[i], value |-> headers[capture_headers[i]].value]>>
          ELSE << >>)
         \o ExtractFrom(headers, i + 1)

extract_headers(headers) == ExtractFrom(headers, 1)

\* A handler that keeps the address the payload declares.
ingest_handler_trusting(addr, headers, version, payload) ==
    [status |-> 200, sessionId |-> TRUE,
     network_signals |->
         [payload.network EXCEPT !.http_version = extract_http_version(version),
                                 !.headers = @ \o extract_headers(headers)],
     behavioral |-> payload.behavioral]

\* ingest_handler, called with its extracted arguments: it overwrites the ip
\* and the http_version of the payload's network signals with the values of
\* the connection, appends the server-extracted headers and answers 200
\* with a fresh session id.  It returns no error and leaves the behavioural
\* collections of the payload as the Json extractor deserialized them.
ingest_handler(addr, headers, version, payload) ==
    [status |-> 200, sessionId |-> TRUE,
     network_signals |->
         [payload.network EXCEPT !.ip = extract_ip_info(addr),
                                 !.http_version = extract_http_version(version),
                                 !.headers = @ \o extract_headers(headers)],
     behavioral |-> payload.behavioral]

\* health_check and readiness_check answer 200.
health_check == [status |-> 200, sessionId |-> FALSE]

\* main() serves the router with axum::serve(listener, app), which attaches
\* no connection information to the requests: the ConnectInfo extractor of
\* ingest_handler, the first one that can fail, rejects the request with 500
\* before the Json extractor and the body of the handler run.
ConnectInfoRejection == [status |-> 500, sessionId |-> FALSE]

RunHandler(name) == IF name = "ingest_handler" THEN ConnectInfoRejection ELSE health_check

\* The router of main() serves one request: route matching (404, 405), the
\* middleware in order, then the handler of the route with its extractors.
Serve(request) ==
    LET onPath == {rt \in AppRoutes : rt.path = request.path}
        match == {rt \in onPath : rt.method = request.method}
        route == CHOOSE rt \in match : TRUE
        answer(trail, handler, status, sid) ==
            [served |-> TRUE, request |-> request, trail |-> trail,
             handler |-> handler, status |-> status, sessionId |-> sid]
    IN  IF onPath = {} THEN answer(Reverse(AppLayers), "none", 404, FALSE)
        ELSE IF match = {} THEN answer(Reverse(AppLayers), "none", 405, FALSE)
        ELSE answer(MiddlewareOrder(route), route.handler,
                    RunHandler(route.handler).status,
                    RunHandler(route.handler).sessionId)

RouterServe(request) ==
    /\ routed' = Serve(request)
    /\ UNCHANGED <<now, build, hmacKeyEnv, redis, req, counters, call, gov, fp, fcall, admitted, lastStore>>

\* ------------------------------------------------------------ RateLimiter

\* RateLimiter::new(client, max_requests, window_seconds)
RateLimiterNew(max_requests, window_seconds) ==
    [max_requests |-> max_requests, window_seconds |-> window_seconds]

\* The limiter under study: two requests per minute.
limiter == RateLimiterNew(MaxRequests, WindowSeconds)

WindowMs == limiter.window_seconds * 1000

IdleCall ==
    [pc |-> "idle", op |-> "none", id |-> "none", count |-> 0, result |-> "none",
     value |-> 0, fault |-> FALSE, gen |-> 0, nth |-> 0, late |-> FALSE,
     expired |-> FALSE]

\* The call returns r.
Return(c, r) == [c EXCEPT !.pc = "done", !.result = r]

\* The fail-open alternative: a failed command counted as an admission.
FailOpen(c) == [Return(c, "Ok(true)") EXCEPT !.fault = TRUE]

\* A Redis command failed: map_err(ScrybeError::cache_error) and `?`.
CacheError(c) == [Return(c, "Err") EXCEPT !.fault = TRUE]

\* check, get_count or reset is called: the key is formatted and the call
\* waits for a connection.
CallEnter(c, op, identifier) ==
    /\ call[c].pc = "idle"
    /\ call' = [call EXCEPT ![c] =
                   [IdleCall EXCEPT !.pc = "conn", !.op = op, !.id = identifier]]
    /\ UNCHANGED <<now, build, hmacKeyEnv, redis, req, routed, counters, gov, fp, fcall, admitted, lastStore>>

\* get_connection().await fails, or the command fails before Redis has run
\* it.
CallConnectionFail(c) ==
    /\ call[c].pc = "conn"
    /\ call' = [call EXCEPT ![c] = CacheError(@)]
    /\ UNCHANGED <<now, build, hmacKeyEnv, redis, req, routed, counters, gov, fp, fcall, admitted, lastStore>>

\* check: Redis executes the INCR; the reply travels back.
\* (gen, nth and late are history: the incarnation of the key that was
\* counted on, the place of this call among the calls counted on it, and
\* whether window_seconds had already passed since its creation.)
IncrExec(c) ==
    /\ call[c].pc = "conn" /\ call[c].op = "check"
    /\ LET key == RateKey(call[c].id)
       IN  /\ counters[key].val < MaxCount
           /\ counters[key].present \/ counters[key].gen < MaxGen
           /\ counters' = IncrStore(counters, key, now)
           /\ call' = [call EXCEPT ![c].pc = "incr",
                                   ![c].count = IncrReply(counters, key).v,
                                   ![c].gen = counters'[key].gen,
                                   ![c].nth = counters'[key].hits,
                                   ![c].late = /\ counters[key].present
                                               /\ now > counters[key].start + WindowMs]
    /\ UNCHANGED <<now, build, hmacKeyEnv, redis, req, routed, gov, fp, fcall, admitted, lastStore>>

\* The INCR fails with its reply lost.
IncrFail(c) ==
    /\ call[c].pc = "incr"
    /\ call' = [call EXCEPT ![c] = CacheError(@)]
    /\ UNCHANGED <<now, build, hmacKeyEnv, redis, req, routed, counters, gov, fp, fcall, admitted, lastStore>>

\* No check has been admitted since the counters were last reset.
NoAdmissions == [i \in Identities |-> << >>]

\* The call returns result at time clock: an admission is noted with the
\* incarnation of the key it was counted on.
Noted(log, c, result, clock) ==
    IF result = "Ok(true)"
    THEN [log EXCEPT ![c.id] = Append(@, [at |-> clock, gen |-> c.gen])]
    ELSE log

\* A limiter that rejects the max_requests-th call already.
AdmitBelowMax(count) == IF count < limiter.max_requests THEN "Ok(true)" ELSE "Ok(false)"

\* Ok(count <= self.max_requests)
Admit(count) == IF count <= limiter.max_requests THEN "Ok(true)" ELSE "Ok(false)"

\* check has the count: EXPIRE next if count == 1, else it returns.
IncrDecode(c) ==
    /\ call[c].pc = "incr"
    /\ call' = [call EXCEPT ![c] =
                   IF call[c].count = 1 THEN [@ EXCEPT !.pc = "expire"]
                   ELSE Return(@, Admit(call[c].count))]
    /\ admitted' = IF call[c].count = 1 THEN admitted
                   ELSE Noted(admitted, call[c], Admit(call[c].count), now)
    /\ UNCHANGED <<now, build, hmacKeyEnv, redis, req, routed, counters, gov, fp, fcall, lastStore>>

\* Redis executes the EXPIRE of the first request and check returns.
\* (expired is history: this call applied the time to live.)
CounterExpire(c) ==
    /\ call[c].pc = "expire"
    /\ LET key == RateKey(call[c].id)
       IN  /\ counters' = ExpireCounter(counters, key, limiter.window_seconds, now)
           /\ call' = [call EXCEPT ![c] =
                          Return([@ EXCEPT !.expired = counters[key].present],
                                 Admit(call[c].count))]
    /\ admitted' = Noted(admitted, call[c], Admit(call[c].count), now)
    /\ UNCHANGED <<now, build, hmacKeyEnv, redis, req, routed, gov, fp, fcall, lastStore>>

\* The EXPIRE fails, before or after Redis has applied it.
CounterExpireFail(c, applied) ==
    /\ call[c].pc = "expire"
    /\ counters' = IF applied
                   THEN ExpireCounter(counters, RateKey(call[c].id),
                                      limiter.window_seconds, now)
                   ELSE counters
    /\ call' = [call EXCEPT ![c] = CacheError(@)]
    /\ UNCHANGED <<now, build, hmacKeyEnv, redis, req, routed, gov, fp, fcall, admitted, lastStore>>

\* redis::FromRedisValue for Option<usize>: Nil is None, a bulk string is
\* parsed as an integer.
DecodeOptionUsize(reply) ==
    IF reply.type = "nil" THEN [some |-> FALSE, v |-> 0] ELSE [some |-> TRUE, v |-> reply.v]

\* count.unwrap_or(0)
unwrap_or(option, default) == IF option.some THEN option.v ELSE default

\* A peek that renews the time to live of the key it reads.
GetAndTouch(c) ==
    /\ call[c].pc = "conn" /\ call[c].op = "get_count"
    /\ counters' = ExpireCounter(counters, RateKey(call[c].id),
                                 limiter.window_seconds, now)
    /\ call' = [call EXCEPT ![c] =
                   [Return(@, "Ok(count)") EXCEPT
                       !.value = unwrap_or(DecodeOptionUsize(
                                     GetReply(counters, RateKey(call[c].id))), 0)]]
    /\ UNCHANGED <<now, build, hmacKeyEnv, redis, req, routed, gov, fp, fcall, admitted, lastStore>>

\* get_count: Redis executes the GET and get_count returns the count.
GetCount(c) ==
    /\ call[c].pc = "conn" /\ call[c].op = "get_count"
    /\ call' = [call EXCEPT ![c] =
                   [Return(@, "Ok(count)") EXCEPT
                       !.value = unwrap_or(DecodeOptionUsize(
                                     GetReply(counters, RateKey(call[c].id))), 0)]]
    /\ UNCHANGED <<now, build, hmacKeyEnv, redis, req, routed, counters, gov, fp, fcall, admitted, lastStore>>

\* reset: Redis executes the DEL and reset returns Ok(()).
Reset(c) ==
    /\ call[c].pc = "conn" /\ call[c].op = "reset"
    /\ counters' = DelStore(counters, RateKey(call[c].id))
    /\ call' = [call EXCEPT ![c] = Return(@, "Ok(())")]
    /\ admitted' = [admitted EXCEPT ![call[c].id] = << >>]
    /\ UNCHANGED <<now, build, hmacKeyEnv, redis, req, routed, gov, fp, fcall, lastStore>>

\* reset: the DEL is executed and its reply is lost.
ResetFail(c) ==
    /\ call[c].pc = "conn" /\ call[c].op = "reset"
    /\ counters' = DelStore(counters, RateKey(call[c].id))
    /\ call' = [call EXCEPT ![c] = CacheError(@)]
    /\ admitted' = [admitted EXCEPT ![call[c].id] = << >>]
    /\ UNCHANGED <<now, build, hmacKeyEnv, redis, req, routed, gov, fp, fcall, lastStore>>

\* The future of the call is dropped at one of its await points.
CallCancel(c) ==
    /\ call[c].pc \in {"conn", "incr", "expire"}
    /\ call' = [call EXCEPT ![c] = IdleCall]
    /\ UNCHANGED <<now, build, hmacKeyEnv, redis, req, routed, counters, gov, fp, fcall, admitted, lastStore>>

\* The caller has its result; the slot takes the next call.
CallRecycle(c) ==
    /\ call[c].pc = "done"
    /\ call' = [call EXCEPT ![c] = IdleCall]
    /\ UNCHANGED <<now, build, hmacKeyEnv, redis, req, routed, counters, gov, fp, fcall, admitted, lastStore>>

\* The moments the clock is observed at while the limiter runs.
LimiterMoments == {T0 + o : o \in {0, WindowMs, WindowMs + 1}}

\* ------------------------------------------- the rate_limit middleware

\* governor's GCRA for Quota::per_minute(100): one cell is replenished every
\* 60 s / 100 and at most 100 cells are held.
Quota_per_minute(n) ==
    [replenish_1_per |-> (60 * 1000) \div n, max_burst |-> n]

\* rate_limit_layer(): RateLimiter::direct(quota), one limiter that is not
\* keyed by anything; tat = NoExpiry stands for the limiter's empty state.
\* (seen and last are history: the requests each address has sent, with the
\* time of the first of them, and the decision on the last request.)
rate_limit_layer ==
    [t |-> Quota_per_minute(GovernorQuota).replenish_1_per,
     tau |-> Quota_per_minute(GovernorQuota).replenish_1_per
                 * Quota_per_minute(GovernorQuota).max_burst]

NewGovernor ==
    [tat |-> NoExpiry,
     seen |-> [i \in Identities |-> [n |-> 0, since |-> 0]],
     last |-> [ip |-> "none", admitted |-> FALSE, sentBefore |-> 0]]

Max(a, b) == IF a >= b THEN a ELSE b

\* limiter.check(): the theoretical arrival time starts one cell after the
\* first request; a request is admitted when it is no earlier than tat - tau
\* and then moves tat one cell on.
GovernorCheck(tat, clock) ==
    LET cur == IF tat = NoExpiry THEN clock + rate_limit_layer.t ELSE tat
        earliest == Max(cur - rate_limit_layer.tau, 0)
    IN  IF clock < earliest THEN [ok |-> FALSE, tat |-> tat]
        ELSE [ok |-> TRUE, tat |-> Max(cur, clock) + rate_limit_layer.t]

\* The requests the address has sent within the last minute.
SentThisMinute(g, ip, clock) ==
    IF g.seen[ip].n > 0 /\ clock - g.seen[ip].since < 60 * 1000
    THEN g.seen[ip].n ELSE 0

\* rate_limit(ConnectInfo(addr), limiter, request, next): next.run(request)
\* when limiter.check() is Ok, TooManyRequests otherwise.
RateLimit(ip) ==
    /\ SentThisMinute(gov, ip, now) <= GovernorQuota
    /\ LET d == GovernorCheck(gov.tat, now)
           n == SentThisMinute(gov, ip, now)
       IN  gov' = [tat |-> d.tat,
                   seen |-> [gov.seen EXCEPT ![ip] =
                                [n |-> n + 1,
                                 since |-> IF n = 0 THEN now ELSE gov.seen[ip].since]],
                   last |-> [ip |-> ip, admitted |-> d.ok, sentBefore |-> n]]
    /\ UNCHANGED <<build, hmacKeyEnv, now, redis, req, routed, counters, call, fp, fcall, admitted, lastStore>>

\* ------------------------------------------------- FingerprintGenerator

None == [some |-> FALSE, v |-> << >>]
Some(v) == [some |-> TRUE, v |-> v]

\* The bytes hasher.update is given for a list of strings, one after the
\* other.
RECURSIVE Concat(_)
Concat(list) == IF list = << >> THEN << >> ELSE Head(list) \o Concat(Tail(list))

\* BLAKE3 and SHA-256 digests in lowercase hex, taken as collision-free: the
\* 64 hex characters of a digest are written as the hashed bytes between
\* the name of the digest and a closing bracket.
blake3_hex(bytes) == <<"blake3(">> \o bytes \o <<")">>
sha256_hex(bytes) == <<"sha256(">> \o bytes \o <<")">>

\* Whether the text is the 64 lowercase hex characters of a digest.
IsDigestHex(text) ==
    /\ Len(text) >= 2
    /\ text[1] \in {"blake3(", "sha256("}
    /\ text[Len(text)] = ")"

\* as_bytes() of an optional component, nothing when it is None.
ComponentBytes(c) == IF c.some THEN c.v ELSE << >>

hash_fonts(fonts) == blake3_hex(Concat(fonts))

hash_plugins(plugins) == blake3_hex(Concat(plugins))

\* width, height, color_depth and pixel_ratio in their fixed-width
\* little-endian encodings; avail_width and avail_height are not hashed.
hash_screen(screen) ==
    blake3_hex(<<ToString(screen.width), ToString(screen.height),
                 ToString(screen.color_depth), ToString(screen.pixel_ratio)>>)

\* ip.to_string(), then ja3 and ja4 when they are present.
hash_network(network) ==
    blake3_hex(network.ip \o ComponentBytes(network.ja3) \o ComponentBytes(network.ja4))

\* A composite hash that takes the plugins before the fonts.
composite_hash_plugins_first(components) ==
    sha256_hex(ComponentBytes(components.canvas) \o ComponentBytes(components.webgl)
               \o ComponentBytes(components.audio) \o ComponentBytes(components.plugins)
               \o ComponentBytes(components.fonts) \o ComponentBytes(components.screen)
               \o ComponentBytes(components.network))

generate_composite_hash(components) ==
    sha256_hex(ComponentBytes(components.canvas) \o ComponentBytes(components.webgl)
               \o ComponentBytes(components.audio) \o ComponentBytes(components.fonts)
               \o ComponentBytes(components.plugins) \o ComponentBytes(components.screen)
               \o ComponentBytes(components.network))

\* f32 values are counted in units of 2^-28, the spacing of the smallest
\* weight.  F32Ulp is the spacing of the f32 values around x.
F32One == 2 ^ 28
RECURSIVE F32Ulp(_)
F32Ulp(x) == IF x < 2 ^ 24 THEN 1 ELSE 2 * F32Ulp(x \div 2)

\* num / den rounded to the nearest f32, ties to even.
RoundF32(num, den) ==
    LET u == F32Ulp(num \div den)
        q == num \div (den * u)
        rem == num - q * den * u
    IN  IF 2 * rem > den * u \/ (2 * rem = den * u /\ q % 2 = 1)
        THEN (q + 1) * u ELSE q * u

\* The f32 literal num/den and the f32 sum a + b.
F32Lit(num, den) == RoundF32(num * F32One, den)
F32Add(a, b) == RoundF32(a + b, 1)

\* The fields of FingerprintComponents.
ComponentNames == {"canvas", "webgl", "audio", "fonts", "plugins", "screen", "network"}

\* Weights in which the network signal weighs as much as the fonts.
HeavyWeights ==
    <<[c |-> "canvas", w |-> F32Lit(1, 4)], [c |-> "webgl", w |-> F32Lit(1, 4)],
      [c |-> "audio", w |-> F32Lit(3, 20)], [c |-> "fonts", w |-> F32Lit(3, 20)],
      [c |-> "plugins", w |-> F32Lit(1, 10)], [c |-> "screen", w |-> F32Lit(1, 20)],
      [c |-> "network", w |-> F32Lit(3, 20)]>>

\* calculate_confidence: the weights of the present components added up in
\* f32, 0.0 when there is none.
Weights ==
    <<[c |-> "canvas", w |-> F32Lit(1, 4)], [c |-> "webgl", w |-> F32Lit(1, 4)],
      [c |-> "audio", w |-> F32Lit(3, 20)], [c |-> "fonts", w |-> F32Lit(3, 20)],
      [c |-> "plugins", w |-> F32Lit(1, 10)], [c |-> "screen", w |-> F32Lit(1, 20)],
      [c |-> "network", w |-> F32Lit(1, 20)]>>

RECURSIVE SumWeights(_, _, _)
SumWeights(components, i, acc) ==
    IF i > Len(Weights) THEN acc
    ELSE SumWeights(components, i + 1,
                    IF components[Weights[i].c].some
                    THEN [signal_count |-> acc.signal_count + 1,
                          total_weight |-> F32Add(acc.total_weight, Weights[i].w)]
                    ELSE acc)

calculate_confidence(components) ==
    LET sum == SumWeights(components, 1, [signal_count |-> 0, total_weight |-> 0])
    IN  IF sum.signal_count = 0 THEN 0 ELSE sum.total_weight

\* The characters char::is_ascii_hexdigit accepts.
HexDigits ==
    {"0", "1", "2", "3", "4", "5", "6", "7", "8", "9",
     "a", "b", "c", "d", "e", "f", "A", "B", "C", "D", "E", "F"}

is_ascii_hexdigit(ch) == ch \in HexDigits

\* A text is a sequence of characters.  "U+00E9" stands for the character
\* e-acute, which takes two bytes in UTF-8; every other character here takes one.
Utf8Len(ch) == IF ch = "U+00E9" THEN 2 ELSE 1

\* String::len: the length of the text in bytes; the text of a digest has
\* 64 of them.
RECURSIVE StrLen(_)
StrLen(text) ==
    IF IsDigestHex(text) THEN 64
    ELSE IF text = << >> THEN 0
    ELSE Utf8Len(Head(text)) + StrLen(Tail(text))

\* hash.chars().all(|c| c.is_ascii_hexdigit())
AllHexDigits(text) ==
    IsDigestHex(text) \/ \A i \in 1 .. Len(text) : is_ascii_hexdigit(text[i])

\* An f64 is counted in units of 2^-28 like an f32; NaN is a value apart
\* from the numbers, and every comparison with it is false.
NaN == 0 - 2 ^ 30
RangeContains(lo, hi, x) == x # NaN /\ lo <= x /\ x <= hi

\* A constructor that checks the length of the hash and not its characters.
FingerprintNewLengthOnly(hash, components, confidence) ==
    IF StrLen(hash) # 64 \/ ~RangeContains(0, F32One, confidence)
    THEN [some |-> FALSE,
          v |-> [hash |-> << >>, components |-> components, confidence |-> 0]]
    ELSE [some |-> TRUE,
          v |-> [hash |-> hash, components |-> components, confidence |-> confidence]]

\* Fingerprint::new: Some only for a hash of 64 hex characters and a
\* confidence in [0, 1].
FingerprintNew(hash, components, confidence) ==
    IF \/ StrLen(hash) # 64 \/ ~AllHexDigits(hash)
       \/ ~RangeContains(0, F32One, confidence)
    THEN [some |-> FALSE,
          v |-> [hash |-> << >>, components |-> components, confidence |-> 0]]
    ELSE [some |-> TRUE,
          v |-> [hash |-> hash, components |-> components, confidence |-> confidence]]

\* .ok_or_else(|| ScrybeError::enrichment_error(..)) on the constructor's result.
ok_or_else(f) ==
    [ok |-> f.some, v |-> f.v, err |-> IF f.some THEN "none" ELSE "EnrichmentError"]

\* A generator that mixes the session id into the composite hash.
generate_with_id(session) ==
    LET components ==
            [canvas |-> session.browser.canvas_hash,
             webgl |-> session.browser.webgl_hash,
             audio |-> session.browser.audio_hash,
             fonts |-> Some(hash_fonts(session.browser.fonts)),
             plugins |-> Some(hash_plugins(session.browser.plugins)),
             screen |-> Some(hash_screen(session.browser.screen)),
             network |-> Some(hash_network(session.network))]
        f == FingerprintNew(sha256_hex(<<session.id>> \o generate_composite_hash(components)),
                            components, calculate_confidence(components))
    IN  ok_or_else(f)

\* FingerprintGenerator::generate
generate(session) ==
    LET components ==
            [canvas |-> session.browser.canvas_hash,
             webgl |-> session.browser.webgl_hash,
             audio |-> session.browser.audio_hash,
             fonts |-> Some(hash_fonts(session.browser.fonts)),
             plugins |-> Some(hash_plugins(session.browser.plugins)),
             screen |-> Some(hash_screen(session.browser.screen)),
             network |-> Some(hash_network(session.network))]
        f == FingerprintNew(generate_composite_hash(components), components,
                            calculate_confidence(components))
    IN  ok_or_else(f)

\* No session has been handed to the generator.
NoSessions == [given |-> FALSE]

\* generate is called on the i-th of the two sessions at hand.
Generate(i) ==
    /\ fp.given /\ ~fp.out[i].called
    /\ fp' = [fp EXCEPT !.out[i] = [called |-> TRUE, result |-> generate(fp.session[i])]]
    /\ UNCHANGED <<now, build, hmacKeyEnv, redis, req, routed, counters, call, gov, fcall, admitted, lastStore>>

\* No function of the fingerprint types is being called on its own.
NoCall == [fn |-> "none", done |-> FALSE]

\* ingest_handler is called with the connection's address, header map and
\* version and with the deserialized payload at hand.
IngestHandlerCall ==
    /\ fcall.fn = "ingest_handler" /\ ~fcall.done
    /\ fcall' = [fcall EXCEPT
                    !.done = TRUE,
                    !.result = ingest_handler(fcall.addr, fcall.headers, fcall.version,
                                              fcall.payload)]
    /\ UNCHANGED <<now, build, hmacKeyEnv, redis, req, routed, counters, call, gov, fp, admitted, lastStore>>

\* generate_composite_hash is applied to each of the two component sets at
\* hand.
CompositeHashCall ==
    /\ fcall.fn = "generate_composite_hash" /\ ~fcall.done
    /\ fcall' = [fcall EXCEPT
                    !.done = TRUE,
                    !.result = <<generate_composite_hash(fcall.args[1]),
                                 generate_composite_hash(fcall.args[2])>>]
    /\ UNCHANGED <<now, build, hmacKeyEnv, redis, req, routed, counters, call, gov, fp, admitted, lastStore>>

\* hash_network is applied to each of the two network signals at hand.
HashNetworkCall ==
    /\ fcall.fn = "hash_network" /\ ~fcall.done
    /\ fcall' = [fcall EXCEPT
                    !.done = TRUE,
                    !.result = <<hash_network(fcall.args[1]), hash_network(fcall.args[2])>>]
    /\ UNCHANGED <<now, build, hmacKeyEnv, redis, req, routed, counters, call, gov, fp, admitted, lastStore>>

\* calculate_confidence is applied to the components at hand.
CalculateConfidence ==
    /\ fcall.fn = "calculate_confidence" /\ ~fcall.done
    /\ fcall' = [fcall EXCEPT !.done = TRUE,
                               !.value = calculate_confidence(fcall.components)]
    /\ UNCHANGED <<now, build, hmacKeyEnv, redis, req, routed, counters, call, gov, fp, admitted, lastStore>>

\* Fingerprint::new(..).ok_or_else(..) is applied to the hash and the
\* confidence at hand.
FingerprintConstruct ==
    /\ fcall.fn = "Fingerprint::new" /\ ~fcall.done
    /\ fcall' = [fcall EXCEPT
                    !.done = TRUE,
                    !.result = ok_or_else(FingerprintNew(fcall.hash, fcall.components,
                                                         fcall.confidence))]
    /\ UNCHANGED <<now, build, hmacKeyEnv, redis, req, routed, counters, call, gov, fp, admitted, lastStore>>

\* The derived Deserialize of Fingerprint, as serde_json::from_str runs it in
\* SessionCache::get: the fields are taken as they are written; JSON has no
\* NaN, so such a text does not parse.
FingerprintDeserialize ==
    /\ fcall.fn = "Deserialize" /\ ~fcall.done
    /\ fcall' = [fcall EXCEPT
                    !.done = TRUE,
                    !.result =
                        IF fcall.confidence = NaN
                        THEN [ok |-> FALSE, v |-> None.v, err |-> "CacheError"]
                        ELSE [ok |-> TRUE,
                              v |-> [hash |-> fcall.hash, components |-> fcall.components,
                                     confidence |-> fcall.confidence],
                              err |-> "none"]]
    /\ UNCHANGED <<now, build, hmacKeyEnv, redis, req, routed, counters, call, gov, fp, admitted, lastStore>>

\* ----------------------------------------------------------- SessionCache

DEFAULT_SESSION_TTL == 3600

\* SessionCache::new
SessionCacheNew(ttlOption) ==
    [ttl_seconds |-> IF ttlOption.some THEN ttlOption.v ELSE DEFAULT_SESSION_TTL]

\* The cache under study, built without an explicit TTL.
session_cache == SessionCacheNew([some |-> FALSE, v |-> 0])

SessionTtlMs == session_cache.ttl_seconds * 1000

\* format!("session:{}", session_id)
SessionKey(id) == <<"session:", id>>

SessionIds == {"s1", "s2"}

\* A Session is taken as its id, the hash of its fingerprint and the f32
\* browser.screen.pixel_ratio, which is a finite number or (NaN) a value
\* that is not finite.
NoSession == [id |-> "none", hash |-> "none", pixel_ratio |-> 0]

\* serde_json::to_string: a float that is not finite is written as null.
to_string(session) ==
    [id |-> session.id, hash |-> session.hash,
     pixel_ratio |-> IF session.pixel_ratio = NaN
                     THEN [null |-> TRUE, v |-> 0]
                     ELSE [null |-> FALSE, v |-> session.pixel_ratio]]

\* serde_json::from_str::<Session>: null is no f32.
from_str(json) ==
    IF json.pixel_ratio.null THEN [ok |-> FALSE, v |-> NoSession]
    ELSE [ok |-> TRUE,
          v |-> [id |-> json.id, hash |-> json.hash, pixel_ratio |-> json.pixel_ratio.v]]

\* SETEX key seconds value
SetExStore(store, key, value, seconds, clock) ==
    [k \in DOMAIN store \cup {key} |->
        IF k = key
        THEN [val |-> value, exp |-> clock + seconds * 1000, markedAt |-> clock,
              passed |-> FALSE]
        ELSE store[k]]

\* DEL key
DelKey(store, key) == [k \in DOMAIN store \ {key} |-> store[k]]

\* GET key
GetKeyReply(store, key) ==
    IF key \in DOMAIN store THEN [type |-> "bulk", v |-> store[key].val] ELSE NilReply

\* EXISTS key
ExistsReply(store, key) == IntReply(IF key \in DOMAIN store THEN 1 ELSE 0)

\* The match of SessionCache::get on the decoded reply.
GetResult(reply) ==
    IF reply.type = "nil" THEN [kind |-> "None", session |-> NoSession]
    ELSE IF from_str(reply.v).ok
         THEN [kind |-> "Some", session |-> from_str(reply.v).v]
         ELSE [kind |-> "Err", session |-> NoSession]

\* No session has been stored or deleted.
NeverStored == [i \in SessionIds |-> [state |-> "never", session |-> NoSession, at |-> 0]]

NoCacheCall ==
    [fn |-> "SessionCache", op |-> "none", id |-> "none", at |-> 0, fault |-> FALSE,
     result |-> [kind |-> "none", session |-> NoSession]]

\* A call of the SessionCache has returned.  (at is history: the time of the
\* call.)
CacheCall(op, id, fault, kind, session) ==
    [fn |-> "SessionCache", op |-> op, id |-> id, at |-> now, fault |-> fault # "none",
     result |-> [kind |-> IF fault = "none" THEN kind ELSE "Err",
                 session |-> IF fault = "none" THEN session ELSE NoSession]]

\* store: the session is serialized and Redis runs the SETEX.  fault tells
\* whether the call failed before Redis ran the command ("before"), failed
\* with the reply lost ("after"), or did not fail ("none").
SessionCacheStore(session, fault) ==
    /\ fcall.fn = "SessionCache"
    /\ redis' = IF fault = "before" THEN redis
                ELSE SetExStore(redis, SessionKey(session.id), to_string(session),
                                session_cache.ttl_seconds, now)
    /\ fcall' = CacheCall("store", session.id, fault, "Ok(())", NoSession)
    /\ lastStore' = IF fault = "before" THEN lastStore
                    ELSE [lastStore EXCEPT ![session.id] =
                             [state |-> IF fault = "none" THEN "stored" ELSE "unknown",
                              session |-> session, at |-> now]]
    /\ UNCHANGED <<now, build, hmacKeyEnv, req, routed, counters, call, gov, fp, admitted>>

\* get: Redis runs the GET and the value, when there is one, is parsed.
SessionCacheGet(id, fault) ==
    /\ fcall.fn = "SessionCache"
    /\ LET r == GetResult(GetKeyReply(redis, SessionKey(id)))
       IN  fcall' = CacheCall("get", id, fault, r.kind, r.session)
    /\ UNCHANGED <<now, build, hmacKeyEnv, redis, req, routed, counters, call, gov, fp, admitted, lastStore>>

\* delete: Redis runs the DEL.
SessionCacheDelete(id, fault) ==
    /\ fcall.fn = "SessionCache"
    /\ redis' = IF fault = "before" THEN redis ELSE DelKey(redis, SessionKey(id))
    /\ fcall' = CacheCall("delete", id, fault, "Ok(())", NoSession)
    /\ lastStore' = IF fault = "before" THEN lastStore
                    ELSE [lastStore EXCEPT ![id] =
                             [state |-> "deleted", session |-> NoSession, at |-> now]]
    /\ UNCHANGED <<now, build, hmacKeyEnv, req, routed, counters, call, gov, fp, admitted>>

\* exists: Redis runs the EXISTS and the integer reply is read as a bool.
SessionCacheExists(id, fault) ==
    /\ fcall.fn = "SessionCache"
    /\ fcall' = CacheCall("exists", id, fault,
                          IF ExistsReply(redis, SessionKey(id)).v = 1 THEN "true" ELSE "false",
                          NoSession)
    /\ UNCHANGED <<now, build, hmacKeyEnv, redis, req, routed, counters, call, gov, fp, admitted, lastStore>>

\* The moments the clock is observed at while the cache runs.
SessionMoments == {T0 + o : o \in {0, SessionTtlMs - 1, SessionTtlMs, SessionTtlMs + 1}}

\* ---------------------------------------------------------- specifications

\* A client signs the timestamp, the nonce and the raw body bytes.
ClientSign(key, tsText, nonceText, body) ==
    [mac |-> <<key, [ts |-> tsText, rest |-> nonceText \o <<":">> \o body]>>,
     hexcase |-> "lower"]

\* The keys a client may sign with: the deployment's secret and the
\* published fallback key.
ClientKeys == {"k1", DevKey}

TextHdr(text) == [st |-> "text", text |-> text]

\* The signature headers a client may send with a request.
SignedHdrs(ts, nonce, body) ==
    {TextHdr(ClientSign(k, ts.text, nonce.text, body)) : k \in ClientKeys}

\* The redis crate either decodes an integer reply as a String or does not.
Builds == [intAsString : BOOLEAN]

Init ==
    /\ now = T0
    /\ build \in Builds
    /\ hmacKeyEnv \in EnvValues
    /\ redis = << >>
    /\ req = [r \in Slots |-> IdleReq]
    /\ routed = NotRouted
    /\ counters = [k \in RateKeys |-> AbsentCounter(0)]
    /\ call = [c \in Slots |-> IdleCall]
    /\ gov = NewGovernor
    /\ admitted = NoAdmissions
    /\ lastStore = NeverStored
    /\ fp = NoSessions
    /\ fcall = NoCall

\* The steps of a request inside hmac_auth, and the clock.
Step(r) ==
    \/ GetConnectionFail(r)
    \/ SetNxExec(r)
    \/ SetNxFail(r)
    \/ SetNxDecode(r)
    \/ Expire(r)
    \/ \E applied \in BOOLEAN : ExpireFail(r, applied)
    \/ ReadBodyFail(r)
    \/ VerifySignature(r)
    \/ Cancel(r)
    \/ Recycle(r)

\* Spec: requests with well-formed headers handled concurrently.
TsHdrs == {TextHdr(TsText(T0))}
NonceHdrs == {TextHdr(<<"a">>), TextHdr(<<"b">>)}
Bodies == {<<"a">>}

Next ==
    \/ \E r \in Slots, ts \in TsHdrs, nonce \in NonceHdrs, body \in Bodies :
          \E sig \in SignedHdrs(ts, nonce, body), checks \in BOOLEAN :
              HmacAuthEnter(r, ts, nonce, sig, body, checks)
    \/ \E r \in Slots : Step(r)
    \/ \E t \in Moments : Tick(t)

Spec == Init /\ [][Next]_vars

\* SpecSerial: one request at a time, with every kind of header and body.
SerialTsHdrs ==
    {NoHdr, [st |-> "opaque", text |-> TsWord], TextHdr(TsWord)} \cup
    {TextHdr(TsText(v)) :
        v \in {T0, T0 + FIVE_MINUTES_MS, T0 + FIVE_MINUTES_MS + 1,
               I64Min, T0 + I64Min, I64Max + 1}}
SerialNonceHdrs ==
    {TextHdr(<<"a">>), TextHdr(<<"a", ":", "b">>), NoNonceHdr,
     [st |-> "opaque", text |-> <<>>]}
SerialBodies == {<<"a">>, <<"xFF">>}
SerialSigHdrs(ts, nonce, body) ==
    SignedHdrs(ts, nonce, body) \cup {NoSigHdr, [st |-> "opaque", text |-> NoSig]}

NextSerial ==
    \/ \E ts \in SerialTsHdrs, nonce \in SerialNonceHdrs, body \in SerialBodies :
          \E sig \in SerialSigHdrs(ts, nonce, body), checks \in BOOLEAN :
              HmacAuthEnter(1, ts, nonce, sig, body, checks)
    \/ Step(1)
    \/ \E t \in Moments : Tick(t)

SpecSerial == Init /\ [][NextSerial]_vars

\* SpecRejections: one request at a time, sent with one nonce or none and
\* with every kind of timestamp header.
RejectionTsHdrs ==
    {NoHdr, [st |-> "opaque", text |-> TsWord], TextHdr(TsWord),
     TextHdr(TsText(T0)), TextHdr(TsText(T0 + FIVE_MINUTES_MS + 1))}
RejectionNonceHdrs == {TextHdr(<<"a">>), NoNonceHdr, [st |-> "opaque", text |-> <<>>]}

NextRejections ==
    \/ \E ts \in RejectionTsHdrs, nonce \in RejectionNonceHdrs :
          \E sig \in SerialSigHdrs(ts, nonce, <<"a">>), checks \in BOOLEAN :
              HmacAuthEnter(1, ts, nonce, sig, <<"a">>, checks)
    \/ Step(1)
    \/ \E t \in Moments : Tick(t)

SpecRejections == Init /\ [][NextRejections]_vars

\* SpecRouter: the requests the router of main() serves.
RouterRequests ==
    [method : {"GET", "POST"},
     path : {"/health", "/health/ready", "/api/v1/ingest", "/other"},
     hasTimestamp : BOOLEAN, hasNonce : BOOLEAN, hasSignature : BOOLEAN,
     jsonOk : BOOLEAN]

NextRouter == \E request \in RouterRequests : RouterServe(request)

SpecRouter == Init /\ [][NextRouter]_vars

\* SpecLimiter: concurrent RateLimiter calls for one identity.
InitLimiter == Init /\ build.intAsString /\ hmacKeyEnv = EnvUnset

CallStep(c) ==
    \/ CallConnectionFail(c)
    \/ IncrExec(c)
    \/ IncrFail(c)
    \/ IncrDecode(c)
    \/ CounterExpire(c)
    \/ \E applied \in BOOLEAN : CounterExpireFail(c, applied)
    \/ GetCount(c)
    \/ Reset(c)
    \/ ResetFail(c)
    \/ CallCancel(c)
    \/ CallRecycle(c)

Operations == {"check", "get_count", "reset"}

NextLimiter ==
    \/ \E c \in Slots, op \in Operations : CallEnter(c, op, "ip1")
    \/ \E c \in Slots : CallStep(c)
    \/ \E t \in LimiterMoments : Tick(t)

SpecLimiter == InitLimiter /\ [][NextLimiter]_vars

\* SpecLimiterSerial: RateLimiter calls for two identities, one at a time.
NextLimiterSerial ==
    \/ \E op \in Operations, i \in Identities : CallEnter(1, op, i)
    \/ CallStep(1)
    \/ \E t \in LimiterMoments : Tick(t)

SpecLimiterSerial == InitLimiter /\ [][NextLimiterSerial]_vars

\* SpecStore: one request in hmac_auth and one RateLimiter call at a time,
\* with every failure of the store.
StoreNonceHdrs == {TextHdr(<<"a">>)}

NextStore ==
    \/ \E ts \in TsHdrs, nonce \in StoreNonceHdrs, body \in Bodies :
          \E sig \in SignedHdrs(ts, nonce, body), checks \in BOOLEAN :
              HmacAuthEnter(1, ts, nonce, sig, body, checks)
    \/ Step(1)
    \/ \E op \in Operations : CallEnter(1, op, "ip1")
    \/ CallStep(1)

SpecStore == Init /\ [][NextStore]_vars

\* SpecGovernor: requests from two addresses pass the rate_limit middleware.
GovernorMoments == {T0, T0 + 60 * 1000}

NextGovernor ==
    \/ \E ip \in Identities : RateLimit(ip)
    \/ \E t \in GovernorMoments : Tick(t)

SpecGovernor == InitLimiter /\ [][NextGovernor]_vars

\* SpecFingerprint: generate applied to two sessions, in either order.
DefaultScreen ==
    [width |-> 1920, height |-> 1080, avail_width |-> 1920, avail_height |-> 1080,
     color_depth |-> 24, pixel_ratio |-> 1]

\* The browser signals outside the canvas, webgl and audio hashes and the
\* lists: two environments that differ in the screen's available height,
\* the timezone, the language and the user agent.
Screens ==
    {[screen |-> DefaultScreen, timezone |-> "UTC", language |-> "en", user_agent |-> "ua"],
     [screen |-> [DefaultScreen EXCEPT !.avail_height = 1040],
      timezone |-> "CET", language |-> "de", user_agent |-> "ub"]}

\* Font and plugin lists: the same entries in two orders, and as one entry.
StringLists == {<<<<"a">>, <<"a", "a">>>>, <<<<"a", "a">>, <<"a">>>>,
                <<<<"a", "a", "a">>>>, << >>}

PluginLists == {<<<<"p">>>>, << >>}

Networks ==
    {[ip |-> <<"1", ".", "2">>, ja3 |-> j[1], ja4 |-> j[2],
      headers |-> j[3], http_version |-> j[4]] :
        j \in {<<None, None, << >>, "Http11">>,
               <<None, None, <<[name |-> "accept", value |-> "x"]>>, "Http2">>,
               <<Some(<<"x">>), None, << >>, "Http11">>,
               <<None, Some(<<"x">>), << >>, "Http11">>}}

Browsers ==
    {[canvas_hash |-> h[1], webgl_hash |-> h[2], audio_hash |-> h[3],
      fonts |-> f, plugins |-> p, timezone |-> sc.timezone, language |-> sc.language,
      screen |-> sc.screen, user_agent |-> sc.user_agent] :
        h \in {<<None, None, None>>, <<Some(<<"h", "1">>), None, None>>,
               <<Some(<<"h", "1">>), Some(<<"h", "2">>), Some(<<"h", "3">>)>>},
        f \in StringLists, p \in PluginLists, sc \in Screens}

Sessions ==
    {[id |-> m[1], timestamp |-> m[2], network |-> n, browser |-> b, behavioral |-> m[3]] :
        m \in {<<"id1", T0, NoBehavior>>,
               <<"id2", T0 + 1, [NoBehavior EXCEPT !.mouse_events = 2]>>},
        n \in Networks, b \in Browsers}

NotCalled ==
    [called |-> FALSE,
     result |-> [ok |-> FALSE, v |-> [hash |-> << >>, confidence |-> 0]]]

InitFingerprint ==
    /\ now = T0
    /\ build = [intAsString |-> TRUE]
    /\ hmacKeyEnv = EnvUnset
    /\ redis = << >>
    /\ req = [r \in Slots |-> IdleReq]
    /\ routed = NotRouted
    /\ counters = [k \in RateKeys |-> AbsentCounter(0)]
    /\ call = [c \in Slots |-> IdleCall]
    /\ gov = NewGovernor
    /\ admitted = NoAdmissions
    /\ lastStore = NeverStored
    /\ \E s1 \in Sessions, s2 \in Sessions :
          fp = [given |-> TRUE, session |-> <<s1, s2>>, out |-> <<NotCalled, NotCalled>>]
    /\ fcall = NoCall

NextFingerprint == \E i \in {1, 2} : Generate(i)

SpecFingerprint == InitFingerprint /\ [][NextFingerprint]_vars

\* SpecConfidence: calculate_confidence applied to every combination of
\* present and absent components.
ComponentSets ==
    {[c \in ComponentNames |-> IF c \in present THEN Some(<<"h">>) ELSE None] :
        present \in SUBSET ComponentNames}

InitConfidence ==
    /\ now = T0
    /\ build = [intAsString |-> TRUE]
    /\ hmacKeyEnv = EnvUnset
    /\ redis = << >>
    /\ req = [r \in Slots |-> IdleReq]
    /\ routed = NotRouted
    /\ counters = [k \in RateKeys |-> AbsentCounter(0)]
    /\ call = [c \in Slots |-> IdleCall]
    /\ gov = NewGovernor
    /\ admitted = NoAdmissions
    /\ lastStore = NeverStored
    /\ fp = NoSessions
    /\ \E components \in ComponentSets :
          fcall = [fn |-> "calculate_confidence", done |-> FALSE,
                   components |-> components, value |-> 0]

NextConfidence == CalculateConfidence

SpecConfidence == InitConfidence /\ [][NextConfidence]_vars

\* SpecConstructor: Fingerprint::new applied to hashes of several lengths
\* and alphabets and to confidences in and around [0, 1].
Repeat(ch, n) == [i \in 1 .. n |-> ch]

HashTexts ==
    {Repeat("a", 64), Repeat("F", 64), Repeat("z", 64), Repeat("a", 63), Repeat("a", 65),
     Repeat("a", 63) \o <<"g">>, Repeat("a", 63) \o <<"F">>, Repeat("U+00E9", 32),
     Repeat("U+00E9", 64), <<"a", "b", "c", "1", "2", "3">>, << >>, sha256_hex(<<"x">>)}

ConfidenceValues ==
    {NaN, 0 - F32One, 0 - 1, 0, 1, 255013683, F32One, F32One + 1, 3 * (F32One \div 2)}

InitConstructor ==
    /\ now = T0
    /\ build = [intAsString |-> TRUE]
    /\ hmacKeyEnv = EnvUnset
    /\ redis = << >>
    /\ req = [r \in Slots |-> IdleReq]
    /\ routed = NotRouted
    /\ counters = [k \in RateKeys |-> AbsentCounter(0)]
    /\ call = [c \in Slots |-> IdleCall]
    /\ gov = NewGovernor
    /\ admitted = NoAdmissions
    /\ lastStore = NeverStored
    /\ fp = NoSessions
    /\ \E hash \in HashTexts, confidence \in ConfidenceValues :
          fcall = [fn |-> "Fingerprint::new", done |-> FALSE, hash |-> hash,
                   components |-> [c \in ComponentNames |-> None],
                   confidence |-> confidence, result |-> ok_or_else(None)]

NextConstructor == FingerprintConstruct

SpecConstructor == InitConstructor /\ [][NextConstructor]_vars

\* SpecValues: the two ways a Fingerprint value comes to exist, the
\* constructor and the derived Deserialize.
InitValues ==
    /\ now = T0
    /\ build = [intAsString |-> TRUE]
    /\ hmacKeyEnv = EnvUnset
    /\ redis = << >>
    /\ req = [r \in Slots |-> IdleReq]
    /\ routed = NotRouted
    /\ counters = [k \in RateKeys |-> AbsentCounter(0)]
    /\ call = [c \in Slots |-> IdleCall]
    /\ gov = NewGovernor
    /\ admitted = NoAdmissions
    /\ lastStore = NeverStored
    /\ fp = NoSessions
    /\ \E fn \in {"Fingerprint::new", "Deserialize"},
          hash \in HashTexts, confidence \in ConfidenceValues :
          fcall = [fn |-> fn, done |-> FALSE, hash |-> hash,
                   components |-> [c \in ComponentNames |-> None],
                   confidence |-> confidence, result |-> ok_or_else(None)]

NextValues == FingerprintConstruct \/ FingerprintDeserialize

SpecValues == InitValues /\ [][NextValues]_vars

\* SpecResponse: two rejections of hmac_auth and their responses.
InitResponse ==
    /\ now = T0
    /\ build = [intAsString |-> TRUE]
    /\ hmacKeyEnv = EnvUnset
    /\ redis = << >>
    /\ req = [r \in Slots |-> IdleReq]
    /\ routed = NotRouted
    /\ counters = [k \in RateKeys |-> AbsentCounter(0)]
    /\ call = [c \in Slots |-> IdleCall]
    /\ gov = NewGovernor
    /\ admitted = NoAdmissions
    /\ lastStore = NeverStored
    /\ fp = NoSessions
    /\ \E e1 \in AuthError, e2 \in AuthError :
          fcall = [fn |-> "into_response", errors |-> <<e1, e2>>,
                   responses |-> <<NoResponse, NoResponse>>]

NextResponse == \E i \in {1, 2} : IntoResponse(i)

SpecResponse == InitResponse /\ [][NextResponse]_vars

\* SpecCompare: the expected signature, 64 hex characters, compared with
\* two supplied ones: itself, one that differs from it in one position, and
\* a shorter and a longer one.
SignatureLen == 64

ExpectedText == Repeat("a", SignatureLen)

ProvidedTexts ==
    {[ExpectedText EXCEPT ![p] = "b"] : p \in 1 .. SignatureLen}
    \cup {ExpectedText, Repeat("a", SignatureLen - 1), Repeat("a", SignatureLen + 1)}

InitCompare ==
    /\ now = T0
    /\ build = [intAsString |-> TRUE]
    /\ hmacKeyEnv = EnvUnset
    /\ redis = << >>
    /\ req = [r \in Slots |-> IdleReq]
    /\ routed = NotRouted
    /\ counters = [k \in RateKeys |-> AbsentCounter(0)]
    /\ call = [c \in Slots |-> IdleCall]
    /\ gov = NewGovernor
    /\ admitted = NoAdmissions
    /\ lastStore = NeverStored
    /\ fp = NoSessions
    /\ \E p1 \in ProvidedTexts, p2 \in ProvidedTexts :
          fcall = [fn |-> "ct_eq", expected |-> ExpectedText, provided |-> <<p1, p2>>,
                   results |-> <<NotCompared, NotCompared>>]

NextCompare == \E i \in {1, 2} : CtEq(i)

SpecCompare == InitCompare /\ [][NextCompare]_vars

\* SpecIngest: ingest_handler called on connections and payloads that
\* disagree about the address, the version and the headers.
Addrs == {[ip |-> <<"1", ".", "2">>, port |-> 8080], [ip |-> <<"9", ".", "9">>, port |-> 8080]}

Versions == {"HTTP_10", "HTTP_11", "HTTP_2"}

HeaderMaps ==
    {<< >>,
     [n \in {"user-agent"} |-> [st |-> "text", value |-> "ua"]],
     [n \in {"user-agent"} |-> [st |-> "opaque", value |-> ""]],
     [n \in {"accept", "user-agent", "cookie"} |-> [st |-> "text", value |-> n]]}

PayloadNetworks ==
    [ip : {<<"1", ".", "2">>, <<"6", ".", "6">>}, ja3 : {None}, ja4 : {None},
     headers : {<< >>, <<[name |-> "user-agent", value |-> "declared"]>>},
     http_version : {"Http11", "Http3"}]

PayloadBehaviors ==
    [mouse_events : {MAX_MOUSE_EVENTS, MAX_MOUSE_EVENTS + 1},
     scroll_events : {MAX_SCROLL_EVENTS, MAX_SCROLL_EVENTS + 1},
     click_events : {MAX_CLICK_EVENTS, MAX_CLICK_EVENTS + 1}]

InitIngest ==
    /\ now = T0
    /\ build = [intAsString |-> TRUE]
    /\ hmacKeyEnv = EnvUnset
    /\ redis = << >>
    /\ req = [r \in Slots |-> IdleReq]
    /\ routed = NotRouted
    /\ counters = [k \in RateKeys |-> AbsentCounter(0)]
    /\ call = [c \in Slots |-> IdleCall]
    /\ gov = NewGovernor
    /\ admitted = NoAdmissions
    /\ lastStore = NeverStored
    /\ fp = NoSessions
    /\ \E addr \in Addrs, headers \in HeaderMaps, version \in Versions,
          network \in PayloadNetworks, behavioral \in PayloadBehaviors :
          fcall = [fn |-> "ingest_handler", done |-> FALSE, addr |-> addr,
                   headers |-> headers, version |-> version,
                   payload |-> [network |-> network, behavioral |-> behavioral],
                   result |-> [status |-> 0, sessionId |-> FALSE,
                               network_signals |-> network, behavioral |-> NoBehavior]]

NextIngest == IngestHandlerCall

SpecIngest == InitIngest /\ [][NextIngest]_vars

\* SpecHashes: generate_composite_hash and hash_network applied to pairs of
\* inputs whose parts are present, absent, or split differently.
SplitComponents ==
    [canvas : {None, Some(<<"a">>), Some(<<"a", "b">>)},
     webgl : {None, Some(<<"b">>)},
     audio : {None}, fonts : {None}, plugins : {None}, screen : {None},
     network : {None, Some(<<"n">>)}]

SplitNetworks ==
    [ip : {<<"1", ".", "2">>}, ja3 : {None, Some(<<"x">>)}, ja4 : {None, Some(<<"x">>)}]

InitHashes ==
    /\ now = T0
    /\ build = [intAsString |-> TRUE]
    /\ hmacKeyEnv = EnvUnset
    /\ redis = << >>
    /\ req = [r \in Slots |-> IdleReq]
    /\ routed = NotRouted
    /\ counters = [k \in RateKeys |-> AbsentCounter(0)]
    /\ call = [c \in Slots |-> IdleCall]
    /\ gov = NewGovernor
    /\ admitted = NoAdmissions
    /\ lastStore = NeverStored
    /\ fp = NoSessions
    /\ \/ \E a \in SplitComponents, b \in SplitComponents :
             fcall = [fn |-> "generate_composite_hash", done |-> FALSE,
                      args |-> <<a, b>>, result |-> << >>]
       \/ \E a \in SplitNetworks, b \in SplitNetworks :
             fcall = [fn |-> "hash_network", done |-> FALSE,
                      args |-> <<a, b>>, result |-> << >>]

NextHashes == CompositeHashCall \/ HashNetworkCall

SpecHashes == InitHashes /\ [][NextHashes]_vars

\* SpecSessions: SessionCache calls, one at a time, on two session ids.
CacheSessions == [id : SessionIds, hash : {"h1", "h2"}, pixel_ratio : {2, NaN}]

Faults == {"none", "before", "after"}

InitSessions ==
    /\ now = T0
    /\ build = [intAsString |-> TRUE]
    /\ hmacKeyEnv = EnvUnset
    /\ redis = << >>
    /\ req = [r \in Slots |-> IdleReq]
    /\ routed = NotRouted
    /\ counters = [k \in RateKeys |-> AbsentCounter(0)]
    /\ call = [c \in Slots |-> IdleCall]
    /\ gov = NewGovernor
    /\ admitted = NoAdmissions
    /\ lastStore = NeverStored
    /\ fp = NoSessions
    /\ fcall = NoCacheCall

NextSessions ==
    \/ \E session \in CacheSessions, fault \in Faults : SessionCacheStore(session, fault)
    \/ \E id \in SessionIds, fault \in Faults : SessionCacheGet(id, fault)
    \/ \E id \in SessionIds, fault \in Faults : SessionCacheDelete(id, fault)
    \/ \E id \in SessionIds, fault \in Faults : SessionCacheExists(id, fault)
    \/ \E t \in SessionMoments : Tick(t)

SpecSessions == InitSessions /\ [][NextSessions]_vars

\* ------------------------------------------------------------------ claims

\* The request in slot r has been answered, and neither a store command nor
\* the body read failed on the way.
Answered(r) == req[r].pc = "done" /\ ~req[r].fault

HeadersPresent(r) ==
    /\ req[r].ts.st = "text"
    /\ req[r].nonce.st = "text"
    /\ req[r].sig.st = "text"

Created == IntReply(1)
Existed == IntReply(0)

\* C1: once a request carrying a nonce has passed the nonce check, every
\* later request that brings the same nonce to the nonce check before the
\* nonce's time to live has run out is rejected with ReplayAttack.
C1_ReplayRejected ==
    \A r \in Slots :
        (Answered(r) /\ req[r].replay) => req[r].outcome = "ReplayAttack"

\* C2: of the validate_nonce calls that race for a nonce that is not in the
\* store, the one whose SETNX created the key returns true and every other
\* one returns false.
C2_ExactlyOneNew ==
    \A r1, r2 \in Slots :
        ( /\ r1 # r2
          /\ req[r1].nonce = req[r2].nonce
          /\ req[r1].vn # "none" /\ ~req[r1].fault
          /\ req[r2].vn # "none" /\ ~req[r2].fault
          /\ req[r1].reply = Created
          /\ req[r2].reply = Existed )
        => (req[r1].vn = "true" /\ req[r2].vn = "false")

\* C3: there is no reachable state in which a nonce key has been set and
\* carries no expiry.
C3_KeyAlwaysHasExpiry ==
    \A k \in DOMAIN redis : redis[k].exp # NoExpiry

\* A validate_nonce call on the key is between its SETNX and its return.
InProgress(k) ==
    \E r \in Slots :
        /\ req[r].pc \in {"reply", "expire"}
        /\ NonceKey(req[r].nonce.text) = k

\* C9: a request with a fresh timestamp, a nonce that was not in the store
\* and a wrong signature is answered InvalidSignature (its nonce stays
\* marked), and a request that finds its nonce marked, by whatever request,
\* is answered ReplayAttack.
C9_WrongSignatureBurnsNonce ==
    \A r \in Slots :
        Answered(r) =>
            /\ (req[r].reply = Created /\ req[r].sig.text # ExpectedSignature(req[r]))
                   => req[r].outcome = "InvalidSignature"
            /\ req[r].reply = Existed => req[r].outcome = "ReplayAttack"

\* C10: a nonce key is gone from the store once ttl_seconds have passed
\* since it was marked, whether the call that marked it returned, failed or
\* was cancelled.
C10_KeyGoneAfterTtl ==
    \A k \in DOMAIN redis :
        ~InProgress(k) => now <= redis[k].markedAt + TtlMs

\* C4: a request that reached ingest_handler has passed hmac_auth and then
\* the rate limiter on its way.
C4_HandlerBehindAuthAndRateLimit ==
    (routed.served /\ routed.handler = "ingest_handler") =>
        \E i, j \in 1 .. Len(routed.trail) :
            /\ i < j
            /\ routed.trail[i] = "hmac_auth"
            /\ routed.trail[j] = "rate_limit"

\* C5: a request is handed to next.run only if its three headers are
\* well-formed, its timestamp was within the window, its own SETNX marked
\* the nonce and its signature is the expected one.
C5_ForwardedOnlyIfAuthentic ==
    \A r \in Slots :
        req[r].outcome = "Forwarded" =>
            /\ HeadersPresent(r)
            /\ req[r].fresh
            /\ req[r].reply = Created
            /\ req[r].sig.text = ExpectedSignature(req[r])

\* The signature of the request in slot r is the lowercase hex HMAC under
\* the server's key of timestamp ":" nonce ":" body.
CorrectlySigned(r) ==
    req[r].sig.text =
        ClientSign(get_hmac_key, req[r].ts.text, req[r].nonce.text, req[r].body)

\* C6: a request with a timestamp within the window, a nonce that was not in
\* the store and the correct signature is handed on with its body unchanged.
C6_AuthenticIsForwarded ==
    \A r \in Slots :
        ( /\ Answered(r)
          /\ HeadersPresent(r)
          /\ req[r].fresh
          /\ req[r].reply = Created
          /\ CorrectlySigned(r) )
        => (req[r].outcome = "Forwarded" /\ req[r].fwdBody = req[r].body)

\* C7: with the three headers present and a timestamp that parses, a
\* timestamp more than 300,000 ms from the clock is answered
\* TimestampExpired and one within 300,000 ms passes the freshness check.
C7_FreshnessWindow ==
    \A r \in Slots :
        (req[r].pc # "idle" /\ HeadersPresent(r) /\ ParseI64(req[r].ts.text).ok) =>
            IF req[r].fresh
            THEN req[r].outcome \notin {"TimestampExpired", "InvalidTimestamp", "Panic"}
            ELSE req[r].outcome = "TimestampExpired"

\* The answer the fixed order of checks gives: headers (timestamp, nonce,
\* signature), freshness, nonce, signature.
FirstFailure(r) ==
    IF ~extract_header(req[r].ts).ok THEN extract_header(req[r].ts).err
    ELSE IF ~extract_header(req[r].nonce).ok THEN extract_header(req[r].nonce).err
    ELSE IF ~extract_header(req[r].sig).ok THEN extract_header(req[r].sig).err
    ELSE IF ~ParseI64(req[r].ts.text).ok THEN "InvalidTimestamp"
    ELSE IF ~req[r].fresh THEN "TimestampExpired"
    ELSE IF req[r].reply = Existed THEN "ReplayAttack"
    ELSE IF req[r].sig.text # ExpectedSignature(req[r]) THEN "InvalidSignature"
    ELSE "Forwarded"

\* C8: the answer is that of the earliest failing check.
C8_EarliestFailureReported ==
    \A r \in Slots : Answered(r) => req[r].outcome = FirstFailure(r)

\* C11: a failed store call is reported as a failure: hmac_auth answers
\* InvalidNonce and forwards nothing, and a RateLimiter call whose Redis
\* command failed returns Err, never Ok.
C11_StoreFailureIsError ==
    /\ \A r \in Slots :
          (req[r].fault /\ req[r].vn = "err") =>
              /\ req[r].pc = "done"
              /\ req[r].outcome = "InvalidNonce"
              /\ req[r].fwdBody = << >>
    /\ \A c \in Slots :
          call[c].fault => (call[c].pc = "done" /\ call[c].result = "Err")

\* C11: a request whose EXPIRE failed and a check whose INCR reply was lost
\* have both been answered.
C11_Witness ==
    /\ req[1].fault /\ req[1].vn = "err" /\ req[1].reply = IntReply(1)
    /\ call[1].fault /\ call[1].op = "check" /\ call[1].count = 1

\* A check call in slot c has returned Ok.
Checked(c) == call[c].pc = "done" /\ call[c].op = "check" /\ ~call[c].fault

\* C12: the first max_requests check calls counted in a window are admitted
\* and every further one is rejected: check admits exactly when the count
\* after its increment is at most max_requests.
C12_AdmitIffWithinMax ==
    \A c \in Slots :
        Checked(c) =>
            /\ call[c].count = call[c].nth
            /\ call[c].result = "Ok(true)" <=> call[c].nth <= limiter.max_requests
            /\ call[c].result = "Ok(false)" <=> call[c].nth > limiter.max_requests

\* C12: the call after the max_requests-th of a running window is rejected.
C12_Witness ==
    /\ Checked(1) /\ call[1].nth = limiter.max_requests + 1
    /\ call[1].result = "Ok(false)" /\ ~call[1].late
    /\ counters[RateKey(call[1].id)].exp # NoExpiry

\* C13: once window_seconds have passed since the first counted request of
\* a window the counter is gone, so no check is rejected on a counter that
\* is older than its window.
C13_AdmittedAgainAfterWindow ==
    \A c \in Slots :
        (Checked(c) /\ call[c].result = "Ok(false)") => ~call[c].late

\* The call in slot c has been counted on the key of its identity as it
\* stands now, in the same window.
Counted(c) ==
    /\ call[c].op = "check" /\ call[c].pc \in {"incr", "expire", "done"}
    /\ call[c].nth > 0
    /\ counters[RateKey(call[c].id)].present
    /\ counters[RateKey(call[c].id)].gen = call[c].gen

\* Concurrent checks of one window have different counts, at most one of
\* them is the first and sets the time to live, and a check whose commands
\* all succeeded returns Ok.
C14_Racers ==
    /\ \A c1, c2 \in Slots :
          (c1 # c2 /\ Counted(c1) /\ Counted(c2) /\ call[c1].id = call[c2].id) =>
              /\ call[c1].count # call[c2].count
              /\ ~(call[c1].expired /\ call[c2].expired)
              /\ ~(call[c1].pc = "expire" /\ call[c2].pc = "expire")
    /\ \A c \in Slots :
          /\ (Counted(c) /\ call[c].pc = "done" /\ ~call[c].fault) =>
                 /\ call[c].expired <=> call[c].count = 1
                 /\ call[c].count = 1 => counters[RateKey(call[c].id)].exp # NoExpiry
          /\ (call[c].pc = "done" /\ call[c].result = "Err") => call[c].fault

\* The time to live of a window is changed only by the EXPIRE of a call
\* that was the first of a window, never by a request counted in the window
\* after the first.
C14_ExpiryKept ==
    \A k \in RateKeys :
        (/\ counters[k].present /\ counters'[k].present
         /\ counters[k].gen = counters'[k].gen
         /\ counters'[k].exp # counters[k].exp) =>
            \E c \in Slots :
                /\ call[c].pc = "expire" /\ call'[c].pc = "done"
                /\ RateKey(call[c].id) = k
                /\ call[c].nth = 1

\* C14: concurrent first requests for an identity get the distinct counts
\* 1..k, exactly one of them applies the window's time to live, none fails
\* because of the race, and no later request of the window extends the time
\* to live.
C14_ConcurrentFirstRequests == []C14_Racers /\ [][C14_ExpiryKept]_vars

\* C14: two checks that raced for a fresh identity have returned, one on
\* count 1 having set the time to live, the other on count 2.
C14_Witness ==
    /\ Counted(1) /\ Counted(2) /\ call[1].id = call[2].id
    /\ call[1].pc = "done" /\ call[2].pc = "done"
    /\ call[1].count = 1 /\ call[1].expired /\ call[1].result = "Ok(true)"
    /\ call[2].count = 2 /\ ~call[2].expired /\ call[2].result = "Ok(true)"
    /\ counters[RateKey(call[1].id)].exp = now + WindowMs

\* The counter of a window is the number of check calls counted in it, and
\* it has counted every call that was counted in the window, rejected ones
\* included.
C15_CountsCalls ==
    /\ \A k \in RateKeys : counters[k].present => counters[k].val = counters[k].hits
    /\ \A c \in Slots : Counted(c) => counters[RateKey(call[c].id)].val >= call[c].nth

\* A counter goes down only when reset deletes it or its window expires.
C15_NeverDecreases ==
    \A k \in RateKeys :
        counters'[k].val < counters[k].val =>
            \/ now' > now
            \/ \E c \in Slots :
                  /\ call[c].op = "reset" /\ call[c].pc = "conn" /\ call'[c].pc = "done"
                  /\ RateKey(call[c].id) = k

\* C15: within a window and without reset the counter equals the number of
\* check calls made since the window started, admitted or rejected, and
\* nothing but reset or expiry decreases it.
C15_CounterCountsEveryCall == []C15_CountsCalls /\ [][C15_NeverDecreases]_vars

\* C15: a rejected call has been counted: the counter stands above
\* max_requests.
C15_Witness ==
    \E c \in Slots :
        /\ Counted(c) /\ Checked(c) /\ call[c].result = "Ok(false)"
        /\ counters[RateKey(call[c].id)].val = limiter.max_requests + 2
        /\ counters[RateKey(call[c].id)].hits = limiter.max_requests + 2

\* What get_count would return for the key in the given keyspace.
CountOf(store, k) == unwrap_or(DecodeOptionUsize(GetReply(store, k)), 0)

\* reset leaves no counter for its identity and leaves the other counters
\* as they are; the check that follows it is counted as 1 on a new key.
C16_ResetStep ==
    \A c \in Slots :
        LET k == RateKey(call[c].id) IN
        /\ (call[c].op = "reset" /\ call[c].pc = "conn" /\ call'[c].result = "Ok(())") =>
               /\ CountOf(counters', k) = 0
               /\ \A o \in RateKeys \ {k} : counters'[o] = counters[o]
        /\ (call[c].op = "check" /\ call[c].pc = "conn" /\ call'[c].pc = "incr"
              /\ CountOf(counters, k) = 0) =>
               /\ call'[c].count = 1
               /\ counters'[k].start = now /\ counters'[k].exp = NoExpiry
               /\ \A o \in RateKeys \ {k} : counters'[o] = counters[o]

\* A check that returned on count 1 has given its window a time to live.
C16_OwnExpiry ==
    \A c \in Slots :
        (Checked(c) /\ Counted(c) /\ call[c].count = 1) =>
            /\ call[c].expired
            /\ counters[RateKey(call[c].id)].exp >= counters[RateKey(call[c].id)].start + WindowMs

\* C16: after reset(identity) get_count(identity) is 0 and the next check
\* returns on a count of 1 in a new window with its own expiry; the counters
\* and expiries of the other identities are unchanged.
C16_ResetClearsOneCounter == []C16_OwnExpiry /\ [][C16_ResetStep]_vars

\* C16: within the first window of "ip2", "ip1" has been reset and its next
\* check has returned on count 1 in a second window.
C16_Witness ==
    /\ now = T0
    /\ Checked(1) /\ call[1].id = "ip1" /\ call[1].count = 1 /\ call[1].gen = 2
    /\ counters[RateKey("ip1")].gen = 2
    /\ counters[RateKey("ip1")].exp = T0 + WindowMs
    /\ counters[RateKey("ip2")].val = 2
    /\ counters[RateKey("ip2")].gen = 1

\* A step of a get_count call leaves every counter and expiry as it is, and
\* the call returns the counter, 0 when there is none.
C17_GetCountStep ==
    \A c \in Slots :
        (call'[c].op = "get_count" /\ call'[c] # call[c]) =>
            /\ counters' = counters
            /\ call'[c].result = "Ok(count)" =>
                   call'[c].value =
                       IF counters[RateKey(call[c].id)].present
                       THEN counters[RateKey(call[c].id)].val ELSE 0

\* C17: get_count returns the current counter, 0 when there is none, and
\* no step of a get_count call changes a counter or its expiry, so the
\* check calls it is interleaved with are counted and decided as without it.
C17_GetCountReadOnly == [][C17_GetCountStep]_vars

\* C17: get_count has returned 2 for a running window while a check for the
\* same identity is in progress.
C17_Witness ==
    \E c, d \in Slots :
        /\ call[c].op = "get_count" /\ call[c].pc = "done" /\ call[c].value = 2
        /\ counters[RateKey(call[c].id)].val = 2
        /\ counters[RateKey(call[c].id)].exp # NoExpiry
        /\ call[d].op = "check" /\ call[d].pc = "incr" /\ call[d].id = call[c].id

\* C18: the rate_limit middleware counts each client address on its own: a
\* request from an address that has sent fewer than 100 requests in the
\* current minute is admitted, whatever the other addresses have sent.
C18_PerAddressBudget ==
    (gov.last.ip # "none" /\ gov.last.sentBefore < GovernorQuota) => gov.last.admitted

\* generate has been called on both sessions.
BothGenerated == fp.given /\ fp.out[1].called /\ fp.out[2].called

\* C19: generate is deterministic: two calls on sessions with the same
\* signals return the same Fingerprint (hash, components and confidence),
\* whatever the order of the calls, the session id and the session time.
C19_Deterministic ==
    (/\ BothGenerated
     /\ fp.session[1].network = fp.session[2].network
     /\ fp.session[1].browser = fp.session[2].browser) =>
        fp.out[1].result = fp.out[2].result

\* C19: two sessions with the same signals and different ids and times have
\* been given the same fingerprint.
C19_Witness ==
    /\ BothGenerated
    /\ fp.session[1].network = fp.session[2].network
    /\ fp.session[1].browser = fp.session[2].browser
    /\ fp.session[1].id # fp.session[2].id
    /\ fp.session[1].timestamp # fp.session[2].timestamp
    /\ fp.session[1].browser.canvas_hash.some
    /\ fp.out[1].result.ok /\ fp.out[1].result = fp.out[2].result

\* The network signals that hash_network reads.
HashedNetwork(network) == <<network.ip, network.ja3, network.ja4>>

\* C20: two signal bundles that differ in a present canvas, webgl or audio
\* hash, in the network signals that are hashed, or in their ordered font or
\* plugin lists get different fingerprints.
C20_DifferentSignalsDifferentFingerprints ==
    (/\ BothGenerated
     /\ \/ fp.session[1].browser.fonts # fp.session[2].browser.fonts
        \/ fp.session[1].browser.plugins # fp.session[2].browser.plugins
        \/ fp.session[1].browser.canvas_hash # fp.session[2].browser.canvas_hash
        \/ fp.session[1].browser.webgl_hash # fp.session[2].browser.webgl_hash
        \/ fp.session[1].browser.audio_hash # fp.session[2].browser.audio_hash
        \/ HashedNetwork(fp.session[1].network) # HashedNetwork(fp.session[2].network)) =>
        fp.out[1].result # fp.out[2].result

\* The signals of a session that were observed: an optional hash that is
\* Some, a list that is not empty; a session always carries a screen and a
\* network record.
Observed(session) ==
    [canvas |-> session.browser.canvas_hash.some,
     webgl |-> session.browser.webgl_hash.some,
     audio |-> session.browser.audio_hash.some,
     fonts |-> session.browser.fonts # << >>,
     plugins |-> session.browser.plugins # << >>,
     screen |-> TRUE,
     network |-> TRUE]

\* C21: in the fingerprint built by generate a component is None exactly
\* when its signal was not observed (an empty font or plugin list counts as
\* not observed), and the confidence is the sum of the weights of the
\* observed signals only.
C21_ComponentsFollowSignals ==
    \A i \in {1, 2} :
        (fp.given /\ fp.out[i].called /\ fp.out[i].result.ok) =>
            LET seen == Observed(fp.session[i])
                f == fp.out[i].result.v
            IN  /\ \A c \in ComponentNames : f.components[c].some <=> seen[c]
                /\ f.confidence =
                       calculate_confidence([c \in ComponentNames |->
                                                IF seen[c] THEN Some(<< >>) ELSE None])

\* The components with one more of them present.
WithPresent(components, c) == [components EXCEPT ![c] = Some(<<"h">>)]

\* C22: for every combination of present and absent components the
\* confidence lies in [0, 1], is 1.00 when all seven are present and 0 when
\* none is, and does not decrease when one more component becomes present.
C22_ConfidenceRange ==
    (fcall.fn = "calculate_confidence" /\ fcall.done) =>
        /\ 0 <= fcall.value /\ fcall.value <= F32One
        /\ (\A c \in ComponentNames : fcall.components[c].some) => fcall.value = F32One
        /\ (\A c \in ComponentNames : ~fcall.components[c].some) => fcall.value = 0
        /\ \A c \in ComponentNames :
              ~fcall.components[c].some =>
                  calculate_confidence(WithPresent(fcall.components, c)) >= fcall.value

\* C22: the confidence of all seven components has been computed and is 1.00.
C22_Witness ==
    /\ fcall.fn = "calculate_confidence" /\ fcall.done
    /\ fcall.value = F32One
    /\ \A c \in ComponentNames : fcall.components[c].some

\* The fixed order of the components in the composite hash.
ComponentOrder == <<"canvas", "webgl", "audio", "fonts", "plugins", "screen", "network">>

\* The hash strings of the present components, one after the other.
RECURSIVE PresentStrings(_, _)
PresentStrings(components, i) ==
    IF i > Len(ComponentOrder) THEN << >>
    ELSE (IF components[ComponentOrder[i]].some THEN components[ComponentOrder[i]].v ELSE << >>)
         \o PresentStrings(components, i + 1)

Is64HexCharacters(text) ==
    \/ IsDigestHex(text)
    \/ Len(text) = 64 /\ \A i \in 1 .. 64 : text[i] \in HexDigits

\* C24: Fingerprint::new returns None for every hash that is not exactly 64
\* hexadecimal characters and for every confidence outside [0, 1], and Some
\* with the given hash and confidence otherwise; a None is surfaced as an
\* EnrichmentError.
C24_ConstructorValidates ==
    (fcall.fn = "Fingerprint::new" /\ fcall.done) =>
        LET valid == /\ Is64HexCharacters(fcall.hash)
                     /\ fcall.confidence # NaN
                     /\ 0 <= fcall.confidence /\ fcall.confidence <= F32One
        IN  /\ fcall.result.ok <=> valid
            /\ fcall.result.ok =>
                  /\ fcall.result.v.hash = fcall.hash
                  /\ fcall.result.v.confidence = fcall.confidence
            /\ ~fcall.result.ok => fcall.result.err = "EnrichmentError"

\* C24: a hash of 64 characters that are not hex digits, given with a
\* confidence in [0, 1], has been refused with an EnrichmentError.
C24_Witness ==
    /\ fcall.fn = "Fingerprint::new" /\ fcall.done
    /\ fcall.hash = Repeat("z", 64)
    /\ fcall.confidence = 255013683
    /\ ~fcall.result.ok /\ fcall.result.err = "EnrichmentError"

LowerHexDigits ==
    {"0", "1", "2", "3", "4", "5", "6", "7", "8", "9", "a", "b", "c", "d", "e", "f"}

\* C25: every Fingerprint value that exists, built by the constructor or
\* read back by deserialization, has a hash of exactly 64 lowercase hex
\* characters and a confidence in [0, 1].
C25_FingerprintInvariant ==
    (fcall.fn \in {"Fingerprint::new", "Deserialize"} /\ fcall.done /\ fcall.result.ok) =>
        /\ \/ IsDigestHex(fcall.result.v.hash)
           \/ /\ Len(fcall.result.v.hash) = 64
              /\ \A i \in 1 .. 64 : fcall.result.v.hash[i] \in LowerHexDigits
        /\ fcall.result.v.confidence # NaN
        /\ 0 <= fcall.result.v.confidence /\ fcall.result.v.confidence <= F32One

\* C26: no request whose payload carries more than 1000 mouse events, more
\* than 100 scroll events or more than 100 click events is accepted as it
\* is: the payload a session id is issued for is within the three limits.
C26_BehaviouralCollectionsBounded ==
    (fcall.fn = "ingest_handler" /\ fcall.done /\ fcall.result.sessionId) =>
        /\ fcall.result.behavioral.mouse_events <= MAX_MOUSE_EVENTS
        /\ fcall.result.behavioral.scroll_events <= MAX_SCROLL_EVENTS
        /\ fcall.result.behavioral.click_events <= MAX_CLICK_EVENTS

\* The signature of a request has been compared.
Compared(r) == r.outcome \in {"Forwarded", "InvalidSignature"}

\* Body byte strings a second request may carry.
OtherBodies == {<<"a">>, <<"xFF">>, <<"uFFFD">>, <<"a", "xFF">>}

\* C27: the expected signature is HMAC-SHA256 over the timestamp, ':', the
\* nonce, ':' and exactly the bytes of the body, valid UTF-8 or not; two
\* requests with the same timestamp and nonce and different body bytes have
\* different expected signatures.
C27_RawBodySigned ==
    \A r \in Slots :
        Compared(req[r]) =>
            /\ ExpectedSignature(req[r]) =
                   compute_signature(
                       [ts |-> req[r].ts.text,
                        rest |-> req[r].nonce.text \o <<":">> \o req[r].body],
                       get_hmac_key)
            /\ \A body \in OtherBodies :
                  body # req[r].body =>
                      ExpectedSignature([req[r] EXCEPT !.body = body])
                          # ExpectedSignature(req[r])

\* Both rejections have been answered.
BothAnswered ==
    /\ fcall.fn = "into_response"
    /\ fcall.responses[1] # NoResponse /\ fcall.responses[2] # NoResponse

\* The rejection reasons: missing field, expired timestamp, replay detected,
\* invalid signature, store unavailable.
Reasons ==
    {"MissingHeader", "TimestampExpired", "ReplayAttack", "InvalidSignature", "InvalidNonce"}

\* C28, as stated: no two distinct rejection reasons are answered with the
\* same HTTP status.
C28_DistinctStatus ==
    (/\ BothAnswered
     /\ fcall.errors[1].kind \in Reasons /\ fcall.errors[2].kind \in Reasons
     /\ fcall.errors[1].kind # fcall.errors[2].kind) =>
        fcall.responses[1].status # fcall.responses[2].status

\* C28, amended: no two distinct AuthError values are answered with the same
\* response: their status or their text differs.
C28_DistinctResponse ==
    (BothAnswered /\ fcall.errors[1] # fcall.errors[2]) =>
        fcall.responses[1] # fcall.responses[2]

\* C28: an invalid signature and an expired timestamp have been answered
\* with the same status and different texts.
C28_Witness ==
    /\ BothAnswered
    /\ fcall.errors[1].kind = "InvalidSignature"
    /\ fcall.errors[2].kind = "TimestampExpired"
    /\ fcall.responses[1].status = fcall.responses[2].status
    /\ fcall.responses[1].body # fcall.responses[2].body

\* C29: the response to an invalid signature has the same status and the
\* same body as the response to a replayed nonce, while the two error
\* values stay distinct.
C29_SignatureAndReplayAlike ==
    (/\ BothAnswered
     /\ fcall.errors[1].kind = "InvalidSignature"
     /\ fcall.errors[2].kind = "ReplayAttack") =>
        /\ fcall.responses[1] = fcall.responses[2]
        /\ fcall.errors[1] # fcall.errors[2]

\* Both supplied signatures have been compared.
BothCompared ==
    /\ fcall.fn = "ct_eq"
    /\ fcall.results[1] # NotCompared /\ fcall.results[2] # NotCompared

\* The position of the first byte in which the text differs from the
\* expected one, 0 when there is none.
FirstMismatch(text) ==
    LET diff == {p \in 1 .. Len(text) : text[p] # fcall.expected[p]}
    IN  IF diff = {} THEN 0 ELSE CHOOSE p \in diff : \A q \in diff : p <= q

\* C30: the comparison of the supplied with the expected signature tells
\* whether they are equal, and the number of bytes it compares does not
\* depend on the position of the first mismatch: two supplied signatures of
\* the expected length take the same number of steps.
C30_ConstantTimeComparison ==
    BothCompared =>
        /\ \A i \in {1, 2} : fcall.results[i].choice <=> fcall.provided[i] = fcall.expected
        /\ (/\ Len(fcall.provided[1]) = Len(fcall.expected)
            /\ Len(fcall.provided[2]) = Len(fcall.expected)) =>
               fcall.results[1].steps = fcall.results[2].steps

\* C30: a signature that differs in its first byte and one that differs in
\* its last byte only have been compared, in the same number of steps.
C30_Witness ==
    /\ BothCompared
    /\ Len(fcall.provided[1]) = Len(fcall.expected)
    /\ Len(fcall.provided[2]) = Len(fcall.expected)
    /\ FirstMismatch(fcall.provided[1]) = 1
    /\ FirstMismatch(fcall.provided[2]) = Len(fcall.expected)
    /\ ~fcall.results[1].choice /\ ~fcall.results[2].choice
    /\ fcall.results[1].steps = fcall.results[2].steps

\* C31: an accepted request cannot be accepted again: at every moment at
\* which the timestamp of a request that was forwarded still passes the
\* freshness check, its nonce is still marked in the store.
C31_NonceOutlastsFreshness ==
    \A r \in Slots :
        (req[r].outcome = "Forwarded" /\ WithinWindow(req[r].ts.text, now)) =>
            NonceKey(req[r].nonce.text) \in DOMAIN redis

\* C32: validate_nonce returns Ok(true) exactly when its SETNX created the
\* key and Ok(false) exactly when the key was already there; a reply that
\* arrived is never reported as a cache error.
C32_SetNxReplyTold ==
    \A r \in Slots :
        (req[r].vn # "none" /\ ~req[r].fault) =>
            /\ req[r].reply = Created => req[r].vn = "true"
            /\ req[r].reply = Existed => req[r].vn = "false"

\* C34: a request is forwarded only if its signature was computed with the
\* key SCRYBE_HMAC_KEY configures; with the variable unset or not valid hex
\* nothing is forwarded.
C34_ConfiguredKeyOnly ==
    \A r \in Slots :
        req[r].outcome = "Forwarded" =>
            /\ hmacKeyEnv.set /\ HexDecode(hmacKeyEnv.text).ok
            /\ req[r].sig.text.mac[1] = HexDecode(hmacKeyEnv.text).bytes

\* C36: for a timestamp header that parses as an i64, validate_timestamp
\* does not panic, and it answers TimestampExpired whenever the timestamp is
\* more than 300,000 ms from the clock, however near to i64::MIN or
\* i64::MAX it is.
C36_NoOverflowInDistance ==
    \A r \in Slots :
        (req[r].pc # "idle" /\ HeadersPresent(r) /\ ParseI64(req[r].ts.text).ok) =>
            /\ req[r].outcome # "Panic"
            /\ ~req[r].fresh => req[r].outcome = "TimestampExpired"

\* The version the server observed, as an HttpVersion.
ObservedVersion(version) ==
    CASE version = "HTTP_10" -> "Http10"
      [] version = "HTTP_11" -> "Http11"
      [] version = "HTTP_2" -> "Http2"

\* The captured headers the connection carried with a readable value.
ServerHeaders(headers) ==
    {[name |-> n, value |-> headers[n].value] :
        n \in {m \in DOMAIN headers : /\ headers[m].st = "text"
                                      /\ \E i \in 1 .. Len(capture_headers) :
                                            capture_headers[i] = m}}

\* C39: after ingest_handler has merged the signals, network.ip and
\* network.http_version are the values of the connection, whatever the
\* payload declared; the client-declared headers are kept at the front of
\* the header list and every server-extracted header follows them.
C39_ServerSignalsWin ==
    (fcall.fn = "ingest_handler" /\ fcall.done) =>
        LET merged == fcall.result.network_signals
            declared == fcall.payload.network.headers
        IN  /\ merged.ip = fcall.addr.ip
            /\ merged.http_version = ObservedVersion(fcall.version)
            /\ Len(merged.headers) >= Len(declared)
            /\ SubSeq(merged.headers, 1, Len(declared)) = declared
            /\ {merged.headers[i] : i \in Len(declared) + 1 .. Len(merged.headers)}
                   = ServerHeaders(fcall.headers)
            /\ Len(merged.headers) = Len(declared) + Cardinality(ServerHeaders(fcall.headers))

\* C39: a payload that declared another address, another version and a
\* user-agent header of its own has been merged with a connection that
\* carried two captured headers.
C39_Witness ==
    /\ fcall.fn = "ingest_handler" /\ fcall.done
    /\ fcall.payload.network.ip # fcall.addr.ip
    /\ fcall.payload.network.http_version = "Http3" /\ fcall.version = "HTTP_2"
    /\ fcall.payload.network.headers # << >>
    /\ Cardinality(ServerHeaders(fcall.headers)) = 2
    /\ fcall.result.network_signals.ip = fcall.addr.ip
    /\ fcall.result.network_signals.http_version = "Http2"
    /\ Len(fcall.result.network_signals.headers) = 3

\* Nonces and valid UTF-8 bodies a second request may carry.
SplitNonces == {<<"a">>, <<"b">>, <<"a", ":", "b">>}

SplitBodies == {<<"a">>, <<"b", ":", "a">>}

\* C33: the signed message determines (timestamp, nonce, body): a request
\* with the same timestamp and another nonce or another body has another
\* expected signature, so the signature of one never authenticates the other.
C33_MessageDeterminesTriple ==
    \A r \in Slots :
        req[r].outcome = "Forwarded" =>
            \A nonce \in SplitNonces, body \in SplitBodies :
                (nonce # req[r].nonce.text \/ body # req[r].body) =>
                    ExpectedSignature([req[r] EXCEPT !.nonce = TextHdr(nonce),
                                                     !.body = body])
                        # ExpectedSignature(req[r])

\* The admissions of identity i noted at a time in [t, t + window_seconds).
AdmittedWithin(i, t) ==
    {j \in 1 .. Len(admitted[i]) :
        admitted[i][j].at >= t /\ admitted[i][j].at < t + WindowMs}

\* The admissions of identity i counted on incarnation g of its key.
AdmittedOn(i, g) == {j \in 1 .. Len(admitted[i]) : admitted[i][j].gen = g}

\* C35: in every interval of length window_seconds, straddling the expiry
\* of a counter or not, check admits at most max_requests calls of an
\* identity.
C35_AnyIntervalBounded ==
    \A i \in Identities :
        \A j \in 1 .. Len(admitted[i]) :
            Cardinality(AdmittedWithin(i, admitted[i][j].at)) <= limiter.max_requests

\* C35: on every incarnation of an identity's counter key, from the INCR
\* that creates it to its expiry or reset, check admits at most
\* max_requests calls.
C35_EachCounterBounded ==
    \A i \in Identities :
        \A g \in 1 .. MaxGen :
            Cardinality(AdmittedOn(i, g)) <= limiter.max_requests

\* C35: one counter of an identity has admitted max_requests calls, the
\* last of them in its final millisecond, and the next counter has
\* admitted a call one millisecond later.
C35_Witness ==
    /\ Cardinality(AdmittedOn("ip1", 1)) = limiter.max_requests
    /\ Cardinality(AdmittedOn("ip1", 2)) >= 1
    /\ Cardinality(AdmittedWithin("ip1", T0 + WindowMs)) >= 2

\* The rejections hmac_auth makes before it turns to the nonce store.
HeaderRejections ==
    {"MissingHeader", "InvalidHeader", "InvalidTimestamp", "TimestampExpired"}

\* C37: a request rejected for a missing or malformed header, an
\* unparseable timestamp or an expired timestamp is rejected in the step it
\* arrives in, with the nonce store as it was and no reply from the store.
C37_RejectionLeavesStore ==
    [][\A r \in Slots :
          req'[r].outcome \in HeaderRejections =>
              /\ req[r].pc \in {"idle", "done"}
              /\ req[r].pc = "idle" => redis' = redis
              /\ req'[r].reply = NilReply /\ req'[r].vn = "none"]_vars

\* C37: a request with a readable nonce has been rejected for its expired
\* timestamp, and the store holds no key for its nonce.
C37_Witness ==
    /\ req[1].outcome = "TimestampExpired"
    /\ req[1].nonce.st = "text"
    /\ NonceKey(req[1].nonce.text) \notin DOMAIN redis

\* C38: two FingerprintComponents values that differ, in which components
\* are present or in how the characters are split over the slots, have
\* different composite hashes, and two network signals that differ in
\* whether a value is ja3 or ja4 have different network hashes.
C38_AbsentPartsNeverCollide ==
    (fcall.fn \in {"generate_composite_hash", "hash_network"} /\ fcall.done) =>
        (fcall.args[1] # fcall.args[2] => fcall.result[1] # fcall.result[2])

\* The last command Redis ran for the id of the call is known to its
\* caller, and the call has just returned without a failure of the store.
CacheCallReturned(op) ==
    /\ fcall.fn = "SessionCache" /\ fcall.op = op
    /\ ~fcall.fault /\ fcall.at = now
    /\ lastStore[fcall.id].state # "unknown"

\* C40: get(id) returns Some(s), s being the session stored last under id,
\* when a store for id has succeeded, no delete(id) has followed it and
\* fewer than ttl_seconds have passed since; it returns None when there is
\* no such store or more than ttl_seconds have passed; and exists(id) is
\* true exactly when get(id) returns Some.
C40_GetReturnsLastStored ==
    /\ CacheCallReturned("get") =>
          LET last == lastStore[fcall.id]
          IN  /\ (last.state = "stored" /\ now - last.at < SessionTtlMs) =>
                     fcall.result = [kind |-> "Some", session |-> last.session]
              /\ (last.state # "stored" \/ now - last.at > SessionTtlMs) =>
                     fcall.result.kind = "None"
    /\ CacheCallReturned("exists") =>
          (fcall.result.kind = "true") =
              (GetResult(GetKeyReply(redis, SessionKey(fcall.id))).kind = "Some")

====
